---------------------------- MODULE Spec2Model ----------------------------
(***************************************************************************)
(* A model of sly, the slideshow creator: crop-to-fit geometry             *)
(* (sly/image_utils.py), media discovery and ordering (sly/image_utils.py),*)
(* clip materialization (sly/video_utils.py) and the sequence composer     *)
(* (sly/slideshow.py and the single-file sly.py), the slideshow run        *)
(* (SlideshowCreator.create_slideshow), the command line and config file   *)
(* (sly/cli.py, sly/config.py) and the entry point main (sly/cli.py).      *)
(*                                                                         *)
(* Each component has its own specification; the variables of the other    *)
(* components keep their initial value there.                              *)
(*                                                                         *)
(* Time is counted in integer ticks, two to the second.  Fade lengths are  *)
(* kept in half ticks (fields fadein2, fadeout2, crossfadein2) so that     *)
(* transition_duration / 2 is exact.                                       *)
(***************************************************************************)
EXTENDS Integers, Sequences, FiniteSets, TLC

VARIABLES
    \* ---- crop-to-fit geometry (resize_and_crop)
    original,           \* size of the image handed to resize_and_crop
    target_width,
    target_height,
    crop_box,           \* the box passed to image.crop: <<left, top, right, bottom>>
    image,              \* size of the image held in the local `image`
    cropPc,             \* "start" | "done" | "raised"
    \* ---- sequence composer
    clips,              \* the clip list handed to the composer
    transition_duration,
    transition_type,
    compositeFails,     \* CompositeVideoClip(...) raises in this run
    concatFails,        \* the first concatenate_videoclips(...) call raises
    title_slide,        \* the title clip handed to apply_transitions, or None
    composed,           \* what the composer returned
    warnings,           \* console.print calls made by the composer
    libCalls,           \* compositing / concatenation calls made, in order
    seqPc,              \* "start" | the name of the function that ran
    \* ---- media discovery
    dirEntries,         \* the directory's entries, in the order iterdir gives them
    path,               \* the directory path handed to discovery
    order,              \* the order mode
    files,              \* the list discovery returned
    discError,          \* the exception discovery raised, or None
    discPc,             \* "start" | the name of the function that ran
    \* ---- clip materialization
    media_files,        \* the file list handed to process_media_files / process_images
    image_duration,
    video_duration_mode,
    processed_clips,    \* the local list the loop appends to
    idx,                \* the position of the loop in media_files, from 1
    matLog,             \* console.print calls: <<message, position of the file>>
    matResult,          \* the returned list, Raised, or None while running
    matPc,              \* "start" | "media_loop" | "image_loop" | the function that ended
    \* ---- create_slideshow
    output_exists,      \* os.path.exists(output) when create_slideshow is entered
    answer,             \* what the user typed at the overwrite prompt
    title,              \* the title argument
    include_videos,
    soundtrack,         \* the soundtrack argument
    faults,             \* the library calls that raise in this run
    audio,              \* the audio attached to final_clip, or None
    final_clip,
    console,            \* console.print calls made by create_slideshow
    steps,              \* the calls create_slideshow has made, in order
    showPc,             \* the position of create_slideshow
    \* ---- command line and config file
    argv,               \* the options given on the command line, with their values
    exists,             \* which of the candidate config files exist
    config_path,
    config,             \* the table load_config_file returned
    args,               \* the Namespace
    valid,              \* what validate_arguments returned
    cliLog,             \* console.print calls made by the config and cli modules
    cliPc,              \* "start" | the name of the function that ran
    \* ---- main
    mainCalls,          \* the functions main has called, in order
    escaped,            \* the exception that left main, None when none did
    mainPc              \* the position of main

cropVars == <<original, target_width, target_height, crop_box, image, cropPc>>
seqVars == <<clips, transition_duration, transition_type, compositeFails,
             concatFails, title_slide, composed, warnings, libCalls, seqPc>>
discVars == <<dirEntries, path, order, files, discError, discPc>>
matVars == <<media_files, image_duration, video_duration_mode, processed_clips,
             idx, matLog, matResult, matPc>>
showVars == <<output_exists, answer, title, include_videos, soundtrack, faults,
              audio, final_clip, console, steps, showPc>>
cliVars == <<argv, exists, config_path, config, args, valid, cliLog, cliPc>>
mainVars == <<mainCalls, escaped, mainPc>>
vars == <<cropVars, seqVars, discVars, matVars, showVars, cliVars, mainVars>>

None == [kind |-> "None"]

-----------------------------------------------------------------------------
(* Bounds *)
MaxDim == 15        \* image and target dimensions range over 1..MaxDim
MaxClips == 3       \* clip lists have 0..MaxClips clips
MaxDur == 3         \* clip durations range over 1..MaxDur ticks
MaxTd == 2          \* transition_duration ranges over 0..MaxTd ticks
MaxFiles == 3       \* a directory holds 0..MaxFiles entries
MaxMtime == 2       \* modification times range over 1..MaxMtime
MaxMedia == 2       \* a media list holds 0..MaxMedia files
MaxNative == 10     \* native video durations range over 1..MaxNative ticks
MaxImageDuration == 3   \* image_duration ranges over 1..MaxImageDuration ticks
MaxShowFiles == 2    \* the directory of a slideshow run holds 0..MaxShowFiles entries
MaxAudio == 4       \* soundtrack durations range over 1..MaxAudio ticks
MaxGiven == 1       \* a command line gives 0..MaxGiven options
MaxKeys == 2        \* a config file holds 0..MaxKeys keys

-----------------------------------------------------------------------------
(***************************************************************************)
(* Crop-to-fit geometry: sly/image_utils.py resize_and_crop                *)
(***************************************************************************)

\* The operands for which the binary64 results below were tabulated.
Binary64Range == 1..16

\* Triples <<a, tw, th>> of Binary64Range for which the binary64 value of
\* a / (tw / th) lies just below the exact integer quotient a*th/tw, so that
\* int() truncates to one less:  9 / (9/7) = 6.999999999999999.
InexactQuotient == {<<9, 9, 7>>, <<9, 9, 14>>}

\* Triples <<a, tw, th>> of Binary64Range for which the binary64 value of
\* a * (tw / th) lies just below the exact integer product a*tw/th:
\* 11 * (15/11) = 14.999999999999998.
InexactProduct == {<<11, 15, 11>>, <<13, 15, 13>>}

\* int(a / target_ratio) with target_ratio = tw / th, in binary64.
IntQuotient(a, tw, th) ==
    CASE a \in Binary64Range /\ tw \in Binary64Range /\ th \in Binary64Range ->
        IF <<a, tw, th>> \in InexactQuotient
        THEN (a * th) \div tw - 1
        ELSE (a * th) \div tw

\* int(a * target_ratio) with target_ratio = tw / th, in binary64.
IntProduct(a, tw, th) ==
    CASE a \in Binary64Range /\ tw \in Binary64Range /\ th \in Binary64Range ->
        IF <<a, tw, th>> \in InexactProduct
        THEN (a * tw) \div th - 1
        ELSE (a * tw) \div th

\* target_ratio > img_ratio.  The two quotients are correctly rounded, so for
\* operands this small they compare as the exact fractions do.
TargetWider(w, h, tw, th) == tw * h > w * th

\* The box handed to image.crop.
CropBox(w, h, tw, th) ==
    IF TargetWider(w, h, tw, th)
    THEN LET new_height == IntQuotient(w, tw, th)
             top == (h - new_height) \div 2
         IN  <<0, top, w, top + new_height>>
    ELSE LET new_width == IntProduct(h, tw, th)
             left == (w - new_width) \div 2
         IN  <<left, 0, left + new_width, h>>

\* PIL Image.crop: rejects a box whose right is left of its left or whose
\* bottom is above its top; otherwise the result has the size of the box
\* (a box of zero width or height gives an empty image).
CropRaises(box) == box[3] < box[1] \/ box[4] < box[2]
Cropped(box) == [width |-> box[3] - box[1], height |-> box[4] - box[2]]

\* PIL Image.resize: rejects a requested size below 1x1; otherwise the result
\* has the requested size, whatever the size of the source.
ResizeRaises(size) == size[1] < 1 \/ size[2] < 1
Resized(img, size) == [width |-> size[1], height |-> size[2]]

CropInit ==
    /\ original \in [width : 1..MaxDim, height : 1..MaxDim]
    /\ target_width \in 1..MaxDim
    /\ target_height \in 1..MaxDim
    /\ image = original
    /\ crop_box = <<>>
    /\ cropPc = "start"

\* resize_and_crop(image, target_width, target_height): the box it crops to,
\* the image it ends with and whether a library call raised.
ResizeAndCropNoResize(img, tw, th) ==
    LET box == CropBox(img.width, img.height, tw, th)
    IN  IF CropRaises(box)
        THEN [box |-> box, image |-> img, pc |-> "raised"]
        ELSE [box |-> box, image |-> Cropped(box), pc |-> "done"]

ResizeAndCropImage(img, tw, th) ==
    LET box == CropBox(img.width, img.height, tw, th)
        size == <<tw, th>>
    IN  IF CropRaises(box)
        THEN [box |-> box, image |-> img, pc |-> "raised"]
        ELSE IF ResizeRaises(size)
        THEN [box |-> box, image |-> Cropped(box), pc |-> "raised"]
        ELSE [box |-> box, image |-> Resized(Cropped(box), size), pc |-> "done"]

ResizeAndCrop ==
    /\ cropPc = "start"
    /\ LET r == ResizeAndCropImage(image, target_width, target_height)
       IN  /\ crop_box' = r.box
           /\ image' = r.image
           /\ cropPc' = r.pc
    /\ UNCHANGED <<original, target_width, target_height>>
    /\ UNCHANGED <<seqVars, discVars, matVars, showVars, cliVars, mainVars>>

-----------------------------------------------------------------------------
(***************************************************************************)
(* Clips and the moviepy operations the composer uses.  A visual is a      *)
(* record of kind "media" (id: its position in the input), "title",        *)
(* "color" (a ColorClip), "composite" (a CompositeVideoClip of its layers) *)
(* or "concat" (the result of concatenate_videoclips, its layers placed    *)
(* back to back).                                                          *)
(***************************************************************************)
Raised == [kind |-> "raised"]

\* The literal durations of the source, in ticks: 1 and 0.5 seconds.
Second == 2
HalfSecond == 1

\* A media clip as clip materialization hands it over: ImageClip(...)
\* .set_duration(d), identified by its position in the input.
MediaClip(i, d) ==
    [kind |-> "media", id |-> i, duration |-> d, start |-> 0,
     fadein2 |-> 0, fadeout2 |-> 0, crossfadein2 |-> 0, layers |-> <<>>]

\* ColorClip(size, color=(0, 0, 0)) with the given duration.
ColorClip(d) ==
    [kind |-> "color", id |-> 0, duration |-> d, start |-> 0,
     fadein2 |-> 0, fadeout2 |-> 0, crossfadein2 |-> 0, layers |-> <<>>]

\* clip.fadein(x), clip.fadeout(x), clip.crossfadein(x): x2 is x in half ticks.
\* None of them changes the clip's duration or start.
FadeIn(c, x2) == [c EXCEPT !.fadein2 = x2]
FadeOut(c, x2) == [c EXCEPT !.fadeout2 = x2]
CrossFadeIn(c, x2) == [c EXCEPT !.crossfadein2 = x2]

\* clip.set_start(t) / clip.with_start(t); clip.set_duration(d) / with_duration(d)
SetStart(c, t) == [c EXCEPT !.start = t]
SetDuration(c, d) == [c EXCEPT !.duration = d]

\* clip.end
End(c) == c.start + c.duration

RECURSIVE MaxEnd(_)
MaxEnd(cs) ==
    IF Len(cs) = 0 THEN 0
    ELSE LET m == MaxEnd(Tail(cs))
         IN  IF End(Head(cs)) > m THEN End(Head(cs)) ELSE m

RECURSIVE SumDuration(_)
SumDuration(cs) ==
    IF Len(cs) = 0 THEN 0 ELSE Head(cs).duration + SumDuration(Tail(cs))

\* a composite lasting until its last layer ends
CompositeVideoClipEndingWithLast(layers) ==
    [kind |-> "composite", id |-> 0,
     duration |-> IF Len(layers) = 0 THEN 0 ELSE End(layers[Len(layers)]),
     start |-> 0, fadein2 |-> 0, fadeout2 |-> 0, crossfadein2 |-> 0,
     layers |-> layers]

\* CompositeVideoClip(layers): the layers keep their own start; the duration
\* is the latest end among them.
CompositeVideoClip(layers) ==
    [kind |-> "composite", id |-> 0, duration |-> MaxEnd(layers),
     start |-> 0, fadein2 |-> 0, fadeout2 |-> 0, crossfadein2 |-> 0,
     layers |-> layers]

\* concatenate_videoclips(cs): clip i plays from the sum of the durations
\* before it; the duration is the sum of all durations.  An empty list raises.
ConcatenateVideoclips(cs) ==
    IF Len(cs) = 0 THEN Raised
    ELSE [kind |-> "concat", id |-> 0, duration |-> SumDuration(cs),
          start |-> 0, fadein2 |-> 0, fadeout2 |-> 0, crossfadein2 |-> 0,
          layers |-> [i \in 1..Len(cs) |->
                         SetStart(cs[i], SumDuration(SubSeq(cs, 1, i - 1)))]]

\* What a composer function did: its return value (Raised when an exception
\* left it), the console messages and the library calls, in order.
Outcome(r, w, l) == [result |-> r, warnings |-> w, libCalls |-> l]

-----------------------------------------------------------------------------
(***************************************************************************)
(* The sequence composer: sly/slideshow.py                                 *)
(***************************************************************************)

\* create_fade_sequence with every clip but the last cut by the transition,
\* as an overlapping composer would.
CreateFadeSequenceTrimmed(cl, td, cFails) ==
    LET n == Len(cl)
        trimmed == [i \in 1..n |->
                      IF i = n THEN FadeOut(cl[i], 2 * td)
                      ELSE SetDuration(FadeIn(cl[i], 2 * td), cl[i].duration - td)]
    IN  Outcome(ConcatenateVideoclips(trimmed), <<>>, <<"concatenate_videoclips">>)

\* create_fade_sequence giving the middle clips fades of the whole transition
CreateFadeSequenceWholeFades(cl, td, cFails) ==
    LET n == Len(cl)
        processed ==
            [i \in 1..n |->
                IF i = 1 THEN FadeIn(cl[i], 2 * td)
                ELSE IF i = n THEN FadeOut(cl[i], 2 * td)
                ELSE FadeOut(FadeIn(cl[i], 2 * td), 2 * td)]
    IN  IF cFails \/ n = 0
        THEN Outcome(ConcatenateVideoclips(cl),
                     <<"Error creating fade sequence">>,
                     <<"concatenate_videoclips", "concatenate_videoclips">>)
        ELSE Outcome(ConcatenateVideoclips(processed), <<>>,
                     <<"concatenate_videoclips">>)

\* create_fade_sequence(clips, transition_duration); cFails: the first
\* concatenate_videoclips call raises.
CreateFadeSequence(cl, td, cFails) ==
    LET n == Len(cl)
        processed ==
            [i \in 1..n |->
                IF i = 1 THEN FadeIn(cl[i], 2 * td)
                ELSE IF i = n THEN FadeOut(cl[i], 2 * td)
                ELSE FadeOut(FadeIn(cl[i], td), td)]
    IN  IF cFails \/ n = 0
        THEN Outcome(ConcatenateVideoclips(cl),
                     <<"Error creating fade sequence">>,
                     <<"concatenate_videoclips", "concatenate_videoclips">>)
        ELSE Outcome(ConcatenateVideoclips(processed), <<>>,
                     <<"concatenate_videoclips">>)

\* create_crossfade_sequence's first loop giving the middle clips the fades
\* of the fade style
ResultClipsFaded(cl, td) ==
    [i \in 1..Len(cl) |->
        IF i = 1 THEN FadeIn(cl[i], 2 * td)
        ELSE IF i = Len(cl) THEN FadeOut(cl[i], 2 * td)
        ELSE FadeOut(FadeIn(cl[i], td), td)]

\* The fades create_crossfade_sequence puts on the clips before layering.
ResultClips(cl, td) ==
    [i \in 1..Len(cl) |->
        IF i = 1 THEN FadeIn(cl[i], 2 * td)
        ELSE IF i = Len(cl) THEN FadeOut(cl[i], 2 * td)
        ELSE cl[i]]

\* current_time advanced by the full duration of each clip.
CurrentTimeNoOverlap(rc, td, i) == SumDuration(SubSeq(rc, 1, i - 1))

\* current_time advanced past each clip by the transition
RECURSIVE CurrentTimeSpaced(_, _, _)
CurrentTimeSpaced(rc, td, i) ==
    IF i = 1 THEN 0
    ELSE CurrentTimeSpaced(rc, td, i - 1) + (rc[i - 1].duration + td)

\* current_time advanced by the transition alone
RECURSIVE CurrentTimeByTransition(_, _, _)
CurrentTimeByTransition(rc, td, i) ==
    IF i = 1 THEN 0 ELSE CurrentTimeByTransition(rc, td, i - 1) + td

\* current_time when the layering loop reaches clip i: every clip before it
\* (the first and the middle ones) advanced it by duration - transition.
RECURSIVE CurrentTime(_, _, _)
CurrentTime(rc, td, i) ==
    IF i = 1 THEN 0
    ELSE CurrentTime(rc, td, i - 1) + (rc[i - 1].duration - td)

\* create_crossfade_sequence whose fallback concatenates the clips as given.
CreateCrossfadeSequencePlainFallback(cl, td, compFails) ==
    LET n == Len(cl)
        result_clips == ResultClips(cl, td)
        composite_clips ==
            [i \in 1..n |->
                IF i = 1 THEN SetStart(result_clips[i], CurrentTime(result_clips, td, i))
                ELSE SetStart(CrossFadeIn(result_clips[i], 2 * td),
                              CurrentTime(result_clips, td, i))]
    IN  IF n = 1
        THEN Outcome(FadeOut(FadeIn(cl[1], 2 * td), 2 * td), <<>>, <<>>)
        ELSE IF n = 0 \/ compFails
        THEN Outcome(ConcatenateVideoclips(cl),
                     <<"Crossfade failed">>,
                     <<"CompositeVideoClip", "concatenate_videoclips">>)
        ELSE Outcome(CompositeVideoClip(composite_clips), <<>>,
                     <<"CompositeVideoClip">>)

\* create_crossfade_sequence(clips, transition_duration); compFails: building
\* the layered composition raises.
CreateCrossfadeSequence(cl, td, compFails) ==
    LET n == Len(cl)
        result_clips == ResultClips(cl, td)
        composite_clips ==
            [i \in 1..n |->
                IF i = 1 THEN SetStart(result_clips[i], CurrentTime(result_clips, td, i))
                ELSE SetStart(CrossFadeIn(result_clips[i], 2 * td),
                              CurrentTime(result_clips, td, i))]
    IN  IF n = 1
        THEN Outcome(FadeOut(FadeIn(cl[1], 2 * td), 2 * td), <<>>, <<>>)
        ELSE IF n = 0
        THEN Outcome(ConcatenateVideoclips(result_clips),
                     <<"Crossfade failed">>, <<"concatenate_videoclips">>)
        ELSE IF compFails
        THEN Outcome(ConcatenateVideoclips(result_clips),
                     <<"Crossfade failed">>,
                     <<"CompositeVideoClip", "concatenate_videoclips">>)
        ELSE Outcome(CompositeVideoClip(composite_clips), <<>>,
                     <<"CompositeVideoClip">>)

\* create_transition_sequence falling back to the fade style.
CreateTransitionSequenceFadeFallback(cl, td, ttype, compFails, cFails) ==
    IF Len(cl) = 0 THEN Outcome(None, <<>>, <<>>)
    ELSE IF Len(cl) = 1
    THEN Outcome(FadeOut(FadeIn(cl[1], 2 * td), 2 * td), <<>>, <<>>)
    ELSE IF ttype = "crossfade" THEN CreateCrossfadeSequence(cl, td, compFails)
    ELSE LET r == CreateFadeSequence(cl, td, cFails)
         IN  IF ttype = "fade" THEN r
             ELSE Outcome(r.result, <<"Unknown transition type">> \o r.warnings,
                          r.libCalls)

\* create_transition_sequence(clips, transition_duration, transition_type)
CreateTransitionSequence(cl, td, ttype, compFails, cFails) ==
    IF Len(cl) = 0 THEN Outcome(None, <<>>, <<>>)
    ELSE IF Len(cl) = 1
    THEN Outcome(FadeOut(FadeIn(cl[1], 2 * td), 2 * td), <<>>, <<>>)
    ELSE IF ttype = "fade" THEN CreateFadeSequence(cl, td, cFails)
    ELSE IF ttype = "crossfade" THEN CreateCrossfadeSequence(cl, td, compFails)
    ELSE LET r == CreateCrossfadeSequence(cl, td, compFails)
         IN  Outcome(r.result, <<"Unknown transition type">> \o r.warnings,
                     r.libCalls)

-----------------------------------------------------------------------------
(***************************************************************************)
(* The composer of the single-file version: sly.py apply_transitions       *)
(***************************************************************************)

\* The transition unit built for clip i > 0: clips[i - 1] under clip i, which
\* starts at its own duration minus the transition and cross-fades in; the
\* unit is cut to clip i's duration.
TransitionUnit(cl, td, i) ==
    SetDuration(
        CompositeVideoClip(
            <<cl[i - 1],
              CrossFadeIn(SetStart(cl[i], cl[i].duration - td), 2 * td)>>),
        cl[i].duration)

\* the loop body with the middle clips left at their full duration
AppliedToUntrimmed(cl, td, i) ==
    IF i = 1 THEN <<FadeIn(cl[i], 2 * td)>>
    ELSE IF i = Len(cl)
    THEN <<TransitionUnit(cl, td, i), FadeOut(cl[i], 2 * td)>>
    ELSE <<TransitionUnit(cl, td, i), cl[i]>>

\* What the loop appends for clip i.
AppliedTo(cl, td, i) ==
    IF i = 1 THEN <<FadeIn(cl[i], 2 * td)>>
    ELSE IF i = Len(cl)
    THEN <<TransitionUnit(cl, td, i), FadeOut(cl[i], 2 * td)>>
    ELSE <<TransitionUnit(cl, td, i), SetDuration(cl[i], cl[i].duration - td)>>

RECURSIVE AppliedUpTo(_, _, _)
AppliedUpTo(cl, td, i) ==
    IF i = 0 THEN <<>> ELSE AppliedUpTo(cl, td, i - 1) \o AppliedTo(cl, td, i)

\* black(1 s), the title with both fades, black(1 s), pause(1 s)
TitleUnits(title_clip, td) ==
    <<ColorClip(Second), FadeOut(FadeIn(title_clip, 2 * td), 2 * td),
      ColorClip(Second), ColorClip(Second)>>

\* apply_transitions(clips, transition_duration, title_slide): the list
\* final_clips, or Raised (clips[0].size of an empty list, with a title).
ApplyTransitions(cl, td, title_clip) ==
    IF title_clip.kind # "None" /\ Len(cl) = 0 THEN Raised
    ELSE [kind |-> "list",
          items |-> (IF title_clip.kind # "None" THEN TitleUnits(title_clip, td)
                     ELSE <<>>)
                    \o AppliedUpTo(cl, td, Len(cl))]

\* create_title_slide(...duration...): an ImageClip of that duration fading
\* in over duration / 2.
CreateTitleSlide(d) ==
    FadeIn([kind |-> "title", id |-> 0, duration |-> d, start |-> 0,
            fadein2 |-> 0, fadeout2 |-> 0, crossfadein2 |-> 0, layers |-> <<>>],
           d)

-----------------------------------------------------------------------------
(* The composer's specification: a clip list and a transition duration are  *)
(* drawn, then one of the composer's functions is applied to them.          *)

RECURSIVE ClipLists(_)
ClipLists(n) ==
    IF n = 0 THEN {<<>>}
    ELSE ClipLists(n - 1) \cup
         {Append(l, MediaClip(n, d)) : l \in {x \in ClipLists(n - 1) : Len(x) = n - 1},
                                       d \in 1..MaxDur}

TransitionTypes == {"fade", "crossfade", "wipe", "Fade"}

SeqInit ==
    /\ clips \in ClipLists(MaxClips)
    /\ transition_duration \in 0..MaxTd
    /\ transition_type = "crossfade"
    /\ compositeFails = FALSE
    /\ concatFails = FALSE
    /\ title_slide = None
    /\ composed = None
    /\ warnings = <<>>
    /\ libCalls = <<>>
    /\ seqPc = "start"

Returns(name, out) ==
    /\ composed' = out.result
    /\ warnings' = out.warnings
    /\ libCalls' = out.libCalls
    /\ seqPc' = name

\* a call of create_transition_sequence
CallCreateTransitionSequence ==
    /\ seqPc = "start"
    /\ \E ttype \in TransitionTypes, compFails \in BOOLEAN, cFails \in BOOLEAN :
          /\ transition_type' = ttype
          /\ compositeFails' = compFails
          /\ concatFails' = cFails
          /\ Returns("create_transition_sequence",
                     CreateTransitionSequence(clips, transition_duration, ttype,
                                              compFails, cFails))
    /\ UNCHANGED <<clips, transition_duration, title_slide>>
    /\ UNCHANGED <<cropVars, discVars, matVars, showVars, cliVars, mainVars>>

\* a direct call of create_fade_sequence
CallCreateFadeSequence ==
    /\ seqPc = "start"
    /\ \E cFails \in BOOLEAN :
          /\ concatFails' = cFails
          /\ Returns("create_fade_sequence",
                     CreateFadeSequence(clips, transition_duration, cFails))
    /\ transition_type' = "fade"
    /\ UNCHANGED <<clips, transition_duration, title_slide, compositeFails>>
    /\ UNCHANGED <<cropVars, discVars, matVars, showVars, cliVars, mainVars>>

\* a direct call of create_crossfade_sequence
CallCreateCrossfadeSequence ==
    /\ seqPc = "start"
    /\ \E compFails \in BOOLEAN :
          /\ compositeFails' = compFails
          /\ Returns("create_crossfade_sequence",
                     CreateCrossfadeSequence(clips, transition_duration, compFails))
    /\ transition_type' = "crossfade"
    /\ UNCHANGED <<clips, transition_duration, title_slide, concatFails>>
    /\ UNCHANGED <<cropVars, discVars, matVars, showVars, cliVars, mainVars>>

\* sly.py: final_clips = apply_transitions(...);
\*         final_clip = concatenate_videoclips(final_clips)
CallApplyTransitions ==
    /\ seqPc = "start"
    /\ \E title_clip \in {None} \cup {CreateTitleSlide(d) : d \in 1..MaxDur} :
          /\ title_slide' = title_clip
          /\ LET final_clips == ApplyTransitions(clips, transition_duration,
                                                 title_clip)
             IN  Returns("apply_transitions",
                         Outcome(IF final_clips.kind = "raised" THEN Raised
                                 ELSE ConcatenateVideoclips(final_clips.items),
                                 <<>>,
                                 IF final_clips.kind = "raised" THEN <<>>
                                 ELSE <<"concatenate_videoclips">>))
    /\ transition_type' = "fade"
    /\ UNCHANGED <<clips, transition_duration, compositeFails, concatFails>>
    /\ UNCHANGED <<cropVars, discVars, matVars, showVars, cliVars, mainVars>>

-----------------------------------------------------------------------------
(***************************************************************************)
(* Media discovery and ordering: sly/image_utils.py                        *)
(*                                                                         *)
(* A file name is the sequence of the code points of its characters, so    *)
(* that Path.suffix, str.lower and the comparison of names are computed as *)
(* Python computes them.  A directory entry is a name with the             *)
(* modification time stat() reports for it.                                *)
(***************************************************************************)

image_extensions ==
    {<<46, 106, 112, 103>>,    \* .jpg
     <<46, 106, 112, 101, 103>>,    \* .jpeg
     <<46, 112, 110, 103>>,    \* .png
     <<46, 103, 105, 102>>,    \* .gif
     <<46, 98, 109, 112>>,    \* .bmp
     <<46, 106, 112, 103, 95>>,    \* .jpg_
     <<46, 116, 105, 102, 102>>,    \* .tiff
     <<46, 116, 105, 102>>,    \* .tif
     <<46, 119, 101, 98, 112>>}    \* .webp

video_extensions ==
    {<<46, 109, 112, 52>>,    \* .mp4
     <<46, 97, 118, 105>>,    \* .avi
     <<46, 109, 111, 118>>,    \* .mov
     <<46, 109, 107, 118>>,    \* .mkv
     <<46, 119, 109, 118>>,    \* .wmv
     <<46, 102, 108, 118>>,    \* .flv
     <<46, 119, 101, 98, 109>>,    \* .webm
     <<46, 109, 52, 118>>,    \* .m4v
     <<46, 51, 103, 112>>,    \* .3gp
     <<46, 109, 112, 103>>,    \* .mpg
     <<46, 109, 112, 101, 103>>}    \* .mpeg

\* the extensions get_media_files looks for, text files among them
AllExtensionsWithText ==
    image_extensions \cup video_extensions \cup {<<46, 116, 120, 116>>}

all_extensions == image_extensions \cup video_extensions

\* str.lower() on one character: "A".."Z" become "a".."z".
LowerChar(c) == IF c \in 65..90 THEN c + 32 ELSE c
\* the suffix compared as it is spelt
AsSpelt(str) == str
Lower(str) == [i \in 1..Len(str) |-> LowerChar(str[i])]

\* name.rfind("."), counting positions from 1; 0 when there is no dot.
RFindDot(name) ==
    IF \E i \in 1..Len(name) : name[i] = 46
    THEN CHOOSE i \in 1..Len(name) :
            /\ name[i] = 46
            /\ \A j \in (i + 1)..Len(name) : name[j] # 46
    ELSE 0

\* Path.suffix: the name from its last dot on, unless that dot is the first
\* or the last character of the name.
Suffix(name) ==
    LET i == RFindDot(name)
    IN  IF 1 < i /\ i < Len(name) THEN SubSeq(name, i, Len(name)) ELSE <<>>

\* is_video_file / is_image_file
IsVideoFile(name) == Lower(Suffix(name)) \in video_extensions
IsImageFile(name) == Lower(Suffix(name)) \in image_extensions

\* a < b for two strings, as Python compares them: by code point, a proper
\* prefix first.
RECURSIVE StrLess(_, _)
StrLess(a, b) ==
    IF Len(b) = 0 THEN FALSE
    ELSE IF Len(a) = 0 THEN TRUE
    ELSE IF Head(a) # Head(b) THEN Head(a) < Head(b)
    ELSE StrLess(Tail(a), Tail(b))

\* x sorts strictly before y under the key x.name ("name") or
\* x.stat().st_mtime ("date")
KeyBefore(x, y, key) ==
    IF key = "name" THEN StrLess(x.name, y.name) ELSE x.mtime < y.mtime

\* list.sort(key=...): a stable sort.  Insert puts x behind every element
\* that does not sort after it.
RECURSIVE Insert(_, _, _)
Insert(x, sorted, key) ==
    IF Len(sorted) = 0 THEN <<x>>
    ELSE IF KeyBefore(x, Head(sorted), key) THEN <<x>> \o sorted
    ELSE <<Head(sorted)>> \o Insert(x, Tail(sorted), key)

RECURSIVE Sorted(_, _)
Sorted(list, key) ==
    IF Len(list) = 0 THEN <<>>
    ELSE Insert(list[Len(list)], Sorted(SubSeq(list, 1, Len(list) - 1), key), key)

Reversed(list) == [i \in 1..Len(list) |-> list[Len(list) + 1 - i]]

\* [f for f in entries if f.suffix.lower() in extensions], in iterdir order
RECURSIVE Matching(_, _)
Matching(entries, extensions) ==
    IF Len(entries) = 0 THEN <<>>
    ELSE (IF Lower(Suffix(Head(entries).name)) \in extensions
          THEN <<Head(entries)>> ELSE <<>>)
         \o Matching(Tail(entries), extensions)

\* the orders random.shuffle can leave a list in
IndexPermutations(n) ==
    {p \in [1..n -> 1..n] : \A i, j \in 1..n : p[i] = p[j] => i = j}
Shuffles(list) ==
    {[i \in 1..Len(list) |-> list[p[i]]] : p \in IndexPermutations(Len(list))}

\* the lists the ordering step of get_media_files / get_image_files can
\* leave: one for "name" and "date", any permutation for "random", the list
\* as iterdir gave it for any other order.
OrderedDescending(list, ord) ==
    IF ord = "name" THEN {Reversed(Sorted(list, "name"))}
    ELSE IF ord = "date" THEN {Reversed(Sorted(list, "date"))}
    ELSE IF ord = "random" THEN Shuffles(list)
    ELSE {list}

Ordered(list, ord) ==
    IF ord = "name" THEN {Sorted(list, "name")}
    ELSE IF ord = "date" THEN {Sorted(list, "date")}
    ELSE IF ord = "random" THEN Shuffles(list)
    ELSE {list}

FileNotFoundError(text, dir) ==
    [kind |-> "FileNotFoundError", text |-> text, path |-> dir]

\* the outcomes of the two discovery functions on a directory listing: the
\* returned list, or the error raised
Discover(entries, dir, ord, extensions, text) ==
    LET found == Matching(entries, extensions)
    IN  IF Len(found) = 0
        THEN {[raised |-> FileNotFoundError(text, dir), files |-> <<>>]}
        ELSE {[raised |-> None, files |-> l] : l \in Ordered(found, ord)}

GetMediaFiles(entries, dir, ord) ==
    Discover(entries, dir, ord, all_extensions,
             "No image or video files found in the specified directory: ")

GetImageFiles(entries, dir, ord) ==
    Discover(entries, dir, ord, image_extensions,
             "No image files found in the specified directory: ")

FileNames ==
    {<<98, 46, 106, 112, 103>>,    \* b.jpg
     <<66, 46, 80, 78, 71>>,    \* B.PNG
     <<97, 46, 109, 112, 52>>,    \* a.mp4
     <<110, 46, 116, 120, 116>>,    \* n.txt
     <<46, 106, 112, 103>>}    \* .jpg

\* the listings Path(path).iterdir() can give: up to MaxFiles entries with
\* distinct names, in any order
RECURSIVE Listings(_)
Listings(n) ==
    IF n = 0 THEN {<<>>}
    ELSE LET shorter == Listings(n - 1)
         IN  shorter \cup
             {Append(l, [name |-> nm, mtime |-> t]) :
                 l \in {x \in shorter : Len(x) = n - 1},
                 nm \in FileNames, t \in 1..MaxMtime}

DistinctNames(l) == \A i, j \in 1..Len(l) : l[i].name = l[j].name => i = j

Orders == {"name", "date", "random", "size"}
Paths == {".", "photos"}

DiscInit ==
    /\ dirEntries \in {l \in Listings(MaxFiles) : DistinctNames(l)}
    /\ path \in Paths
    /\ order = "name"
    /\ files = <<>>
    /\ discError = None
    /\ discPc = "start"

\* a call of get_media_files(path, order)
CallGetMediaFiles ==
    /\ discPc = "start"
    /\ \E ord \in Orders :
          \E r \in GetMediaFiles(dirEntries, path, ord) :
              /\ order' = ord
              /\ files' = r.files
              /\ discError' = r.raised
              /\ discPc' = "get_media_files"
    /\ UNCHANGED <<dirEntries, path>>
    /\ UNCHANGED <<cropVars, seqVars, matVars, showVars, cliVars, mainVars>>

\* a call of get_image_files(path, order)
CallGetImageFiles ==
    /\ discPc = "start"
    /\ \E ord \in Orders :
          \E r \in GetImageFiles(dirEntries, path, ord) :
              /\ order' = ord
              /\ files' = r.files
              /\ discError' = r.raised
              /\ discPc' = "get_image_files"
    /\ UNCHANGED <<dirEntries, path>>
    /\ UNCHANGED <<cropVars, seqVars, matVars, showVars, cliVars, mainVars>>

-----------------------------------------------------------------------------
(***************************************************************************)
(* Clip materialization: sly/video_utils.py process_media_files and        *)
(* process_images.  A media file is a name, whether the file decodes       *)
(* (VideoFileClip(...) / Image.open(...) and the calls on their result     *)
(* succeed) and, for a video, its native duration.                         *)
(***************************************************************************)

\* the duration policy applied to a freshly opened video of native duration v
\* with the cap taken as image_duration itself
VideoClipCappedAtImageDuration(i, v, image_dur, mode) ==
    IF mode = "fixed"
    THEN [kind |-> "video", file |-> i, duration |-> image_dur, cut |-> "set_duration"]
    ELSE IF mode = "limit" /\ v > image_dur
    THEN [kind |-> "video", file |-> i, duration |-> image_dur, cut |-> "subclip"]
    ELSE [kind |-> "video", file |-> i, duration |-> v, cut |-> "none"]

\* the duration policy applied to a freshly opened video of native duration v:
\* the clip appended for file i.  cut records the call that changed the
\* duration, if any.
VideoClip(i, v, image_dur, mode) ==
    IF mode = "fixed"
    THEN [kind |-> "video", file |-> i, duration |-> image_dur, cut |-> "set_duration"]
    ELSE IF mode = "limit" /\ v > image_dur * 3
    THEN [kind |-> "video", file |-> i, duration |-> image_dur * 3, cut |-> "subclip"]
    ELSE [kind |-> "video", file |-> i, duration |-> v, cut |-> "none"]

\* ImageClip(np.array(img)).set_duration(image_duration) for file i
ImageClip(i, image_dur) ==
    [kind |-> "image", file |-> i, duration |-> image_dur, cut |-> "set_duration"]

MediaNames ==
    {<<97, 46, 109, 112, 52>>,    \* a.mp4
     <<98, 46, 106, 112, 103>>,   \* b.jpg
     <<66, 46, 80, 78, 71>>,     \* B.PNG
     <<110, 46, 116, 120, 116>>}   \* n.txt

\* the files a media list can hold: a native duration is drawn for the videos
\* that decode
MediaFiles ==
    {[name |-> nm, decodes |-> TRUE, native |-> v] :
        nm \in {x \in MediaNames : IsVideoFile(x)}, v \in 1..MaxNative}
    \cup {[name |-> nm, decodes |-> b, native |-> 0] :
        nm \in {x \in MediaNames : ~IsVideoFile(x)}, b \in BOOLEAN}
    \cup {[name |-> nm, decodes |-> FALSE, native |-> 0] :
        nm \in {x \in MediaNames : IsVideoFile(x)}}

RECURSIVE MediaLists(_)
MediaLists(n) ==
    IF n = 0 THEN {<<>>}
    ELSE LET shorter == MediaLists(n - 1)
         IN  shorter \cup
             {Append(l, f) : l \in {x \in shorter : Len(x) = n - 1}, f \in MediaFiles}

VideoDurationModes == {"original", "fixed", "limit"}

MatInit ==
    /\ media_files \in MediaLists(MaxMedia)
    /\ image_duration \in 1..MaxImageDuration
    /\ video_duration_mode \in VideoDurationModes
    /\ processed_clips = <<>>
    /\ idx = 0
    /\ matLog = <<>>
    /\ matResult = None
    /\ matPc = "start"

\* process_media_files(media_files, width, height, image_duration,
\*                     video_duration_mode) is entered
EnterProcessMediaFiles ==
    /\ matPc = "start"
    /\ matPc' = "media_loop"
    /\ idx' = 1
    /\ processed_clips' = <<>>
    /\ UNCHANGED <<media_files, image_duration, video_duration_mode, matLog,
                   matResult>>
    /\ UNCHANGED <<cropVars, seqVars, discVars, showVars, cliVars, mainVars>>

\* one iteration of its loop with the clip appended before the decode
\* failure shows
MediaIterationAppendingFailed(f, i, clipsSoFar, image_dur, mode) ==
    IF IsVideoFile(f.name)
    THEN [clips |-> Append(clipsSoFar, VideoClip(i, f.native, image_dur, mode)),
          log |-> <<IF f.decodes THEN "Processed video" ELSE "Error processing", i>>]
    ELSE IF IsImageFile(f.name)
    THEN [clips |-> Append(clipsSoFar, ImageClip(i, image_dur)),
          log |-> <<IF f.decodes THEN "Processed image" ELSE "Error processing", i>>]
    ELSE [clips |-> clipsSoFar, log |-> <<"Skipping unsupported file", i>>]

\* one iteration of its loop, over media_files[i]: the clip list after it and
\* the message printed.  Whatever happens the loop goes on with the next
\* file (the handler ends in `continue`).
MediaIteration(f, i, clipsSoFar, image_dur, mode) ==
    IF IsVideoFile(f.name)
    THEN IF f.decodes
         THEN [clips |-> Append(clipsSoFar, VideoClip(i, f.native, image_dur, mode)),
               log |-> <<"Processed video", i>>]
         ELSE [clips |-> clipsSoFar, log |-> <<"Error processing", i>>]
    ELSE IF IsImageFile(f.name)
    THEN IF f.decodes
         THEN [clips |-> Append(clipsSoFar, ImageClip(i, image_dur)),
               log |-> <<"Processed image", i>>]
         ELSE [clips |-> clipsSoFar, log |-> <<"Error processing", i>>]
    ELSE [clips |-> clipsSoFar, log |-> <<"Skipping unsupported file", i>>]

ProcessMediaFile ==
    /\ matPc = "media_loop"
    /\ idx \in 1..Len(media_files)
    /\ LET r == MediaIteration(media_files[idx], idx, processed_clips,
                               image_duration, video_duration_mode)
       IN  /\ processed_clips' = r.clips
           /\ matLog' = Append(matLog, r.log)
           /\ idx' = idx + 1
    /\ UNCHANGED <<media_files, image_duration, video_duration_mode, matResult,
                   matPc>>
    /\ UNCHANGED <<cropVars, seqVars, discVars, showVars, cliVars, mainVars>>

\* return processed_clips
ReturnProcessMediaFiles ==
    /\ matPc = "media_loop"
    /\ idx > Len(media_files)
    /\ matResult' = [kind |-> "list", items |-> processed_clips]
    /\ matPc' = "process_media_files"
    /\ UNCHANGED <<media_files, image_duration, video_duration_mode,
                   processed_clips, idx, matLog>>
    /\ UNCHANGED <<cropVars, seqVars, discVars, showVars, cliVars, mainVars>>

\* process_images(image_files, width, height, duration) is entered
EnterProcessImages ==
    /\ matPc = "start"
    /\ matPc' = "image_loop"
    /\ idx' = 1
    /\ processed_clips' = <<>>
    /\ UNCHANGED <<media_files, image_duration, video_duration_mode, matLog,
                   matResult>>
    /\ UNCHANGED <<cropVars, seqVars, discVars, showVars, cliVars, mainVars>>

\* one iteration of its loop: Image.open and the calls on the image are not
\* guarded, so a failure leaves the function and the list is lost
ProcessImage ==
    /\ matPc = "image_loop"
    /\ idx \in 1..Len(media_files)
    /\ IF media_files[idx].decodes
       THEN /\ processed_clips' =
                  Append(processed_clips, ImageClip(idx, image_duration))
            /\ idx' = idx + 1
            /\ UNCHANGED <<matResult, matPc>>
       ELSE /\ matResult' = Raised
            /\ matPc' = "process_images"
            /\ UNCHANGED <<processed_clips, idx>>
    /\ UNCHANGED <<media_files, image_duration, video_duration_mode, matLog>>
    /\ UNCHANGED <<cropVars, seqVars, discVars, showVars, cliVars, mainVars>>

\* return processed_images
ReturnProcessImages ==
    /\ matPc = "image_loop"
    /\ idx > Len(media_files)
    /\ matResult' = [kind |-> "list", items |-> processed_clips]
    /\ matPc' = "process_images"
    /\ UNCHANGED <<media_files, image_duration, video_duration_mode,
                   processed_clips, idx, matLog>>
    /\ UNCHANGED <<cropVars, seqVars, discVars, showVars, cliVars, mainVars>>

-----------------------------------------------------------------------------
(***************************************************************************)
(* The run of one slideshow: sly/slideshow.py                              *)
(* SlideshowCreator.create_slideshow.  It is followed call by call; steps  *)
(* records the calls made, console what create_slideshow itself printed.   *)
(* Its arguments path, image_order, image_duration, transition_duration,   *)
(* transition_type and video_duration_mode and its locals media_files,     *)
(* clips and title_slide are the variables of those names.                 *)
(***************************************************************************)

\* an Optional[str] argument that is given
Str(s) == [kind |-> "str", s |-> s]

\* `if x:` for an Optional[str]
Truthy(x) == x.kind # "None" /\ x.s # ""

\* what the user can type at the prompt: "", "y", "Y", "n", "N", "yes"
Answers ==
    {<<>>, <<121>>, <<89>>, <<110>>, <<78>>, <<121, 101, 115>>}

\* the answer compared as it was typed
OverwriteConfirmedAsTyped(typed) ==
    ~(typed # <<>> /\ typed # <<121>>)

\* overwrite = input(...).lower(); the run goes on unless
\* `overwrite and overwrite != "y"`
OverwriteConfirmed(typed) ==
    LET overwrite == Lower(typed)
    IN  ~(overwrite # <<>> /\ overwrite # <<121>>)

\* the directories of the runs: up to MaxShowFiles entries named b.jpg, a.mp4
\* or n.txt
ShowNames ==
    {<<98, 46, 106, 112, 103>>,    \* b.jpg
     <<97, 46, 109, 112, 52>>,     \* a.mp4
     <<110, 46, 116, 120, 116>>}   \* n.txt

ShowListings ==
    {l \in Listings(MaxShowFiles) :
        /\ DistinctNames(l)
        /\ \A i \in 1..Len(l) : l[i].name \in ShowNames /\ l[i].mtime = 1}

\* the discovered files with what opening them gives: whether the file
\* decodes and, for a video that does, its native duration
Decodings(fs) ==
    {[i \in 1..Len(fs) |->
        [name |-> fs[i].name, decodes |-> d[i],
         native |-> IF IsVideoFile(fs[i].name) /\ d[i] THEN MaxDur ELSE 0]] :
     d \in [1..Len(fs) -> BOOLEAN]}

\* process_media_files as a whole: its loop from file i on
RECURSIVE ProcessMediaFilesFrom(_, _, _, _, _, _)
ProcessMediaFilesFrom(mf, i, clipsSoFar, log, image_dur, mode) ==
    IF i > Len(mf) THEN [kind |-> "list", items |-> clipsSoFar, log |-> log]
    ELSE LET r == MediaIteration(mf[i], i, clipsSoFar, image_dur, mode)
         IN  ProcessMediaFilesFrom(mf, i + 1, r.clips, Append(log, r.log),
                                   image_dur, mode)

ProcessMediaFiles(mf, image_dur, mode) ==
    ProcessMediaFilesFrom(mf, 1, <<>>, <<>>, image_dur, mode)

\* process_images as a whole: the first file that fails to decode raises
ProcessImages(mf, image_dur) ==
    IF \E i \in 1..Len(mf) : ~mf[i].decodes
    THEN [kind |-> "raised", items |-> <<>>, log |-> <<>>]
    ELSE [kind |-> "list",
          items |-> [i \in 1..Len(mf) |-> ImageClip(i, image_dur)],
          log |-> <<>>]

\* the materialized clips as the composer sees them: clip k of the list, with
\* its duration
AsClips(items) == [k \in 1..Len(items) |-> MediaClip(k, items[k].duration)]

\* the discovery error left to the outer handler
DiscoveryOutcomeEscaping(r) ==
    IF r.raised.kind = "FileNotFoundError"
    THEN [console |-> <<"An error occurred">>, pc |-> "raised"]
    ELSE [console |-> <<>>, pc |-> "process"]

\* except FileNotFoundError as e: console.print(str(e)); return
DiscoveryOutcome(r) ==
    IF r.raised.kind = "FileNotFoundError"
    THEN [console |-> <<r.raised.text>>, pc |-> "returned"]
    ELSE [console |-> <<>>, pc |-> "process"]

\* the title units with the title left without its fade-out
ShowTitleUnitsNoFadeOut(title_clip, td) ==
    <<ColorClip(HalfSecond), FadeIn(title_clip, 2 * td), ColorClip(HalfSecond)>>

\* black_clip, title_slide.fadein(td).fadeout(td), pause_clip
ShowTitleUnits(title_clip, td) ==
    <<ColorClip(HalfSecond), FadeOut(FadeIn(title_clip, 2 * td), 2 * td),
      ColorClip(HalfSecond)>>

\* final_clip: the concatenation of slideshow_clips when there are several,
\* the only one when there is one, clips[0] when there is none
FinalClip(slideshow_clips, cl) ==
    IF Len(slideshow_clips) > 1 THEN ConcatenateVideoclips(slideshow_clips)
    ELSE IF Len(slideshow_clips) = 1 THEN slideshow_clips[1]
    ELSE IF Len(cl) = 0 THEN Raised
    ELSE cl[1]

\* AudioFileClip(soundtrack) for a file of duration a
AudioFileClip(a) ==
    [kind |-> "audio", source |-> a, duration |-> a, loops |-> 1, cut |-> "none"]

\* audio.audio_loop(duration=d): int(d / audio.duration) + 1 copies back to
\* back, cut to d
AudioLoop(au, d) ==
    [au EXCEPT !.loops = d \div au.duration + 1, !.duration = d,
               !.cut = "audio_loop"]

\* audio.subclip(0, d)
Subclip(au, d) == [au EXCEPT !.duration = d - 0, !.cut = "subclip"]

\* the soundtrack attached as long as it is
FitAudioUntrimmed(au, d) ==
    IF au.duration < d THEN AudioLoop(au, d) ELSE au

\* if audio.duration < final_clip.duration: audio_loop, else: subclip
FitAudio(au, d) ==
    IF au.duration < d THEN AudioLoop(au, d) ELSE Subclip(au, d)

\* the soundtrack block with its handler taken away
SoundtrackOutcomeUnguarded(loads, a, d) ==
    IF loads
    THEN [audio |-> FitAudio(AudioFileClip(a), d), console |-> <<>>,
          steps |-> <<"AudioFileClip", "set_audio">>, pc |-> "render"]
    ELSE [audio |-> None, console |-> <<"An error occurred">>,
          steps |-> <<"AudioFileClip">>, pc |-> "raised"]

\* the soundtrack block: try: ... final_clip.set_audio(audio)
\* except Exception: console.print("Error adding soundtrack")
SoundtrackOutcome(loads, a, d) ==
    IF loads
    THEN [audio |-> FitAudio(AudioFileClip(a), d), console |-> <<>>,
          steps |-> <<"AudioFileClip", "set_audio">>, pc |-> "render"]
    ELSE [audio |-> None, console |-> <<"Error adding soundtrack">>,
          steps |-> <<"AudioFileClip">>, pc |-> "render"]

\* final_clip.write_videofile(...): a failure is printed by the outer handler
\* and raised again; after a success the closing message is printed
RenderOutcome(fails) ==
    IF fails
    THEN [console |-> <<"An error occurred">>, pc |-> "raised"]
    ELSE [console |-> <<"rendered successfully">>, pc |-> "returned"]

showArgs == <<output_exists, title, include_videos, soundtrack>>
showDisc == <<dirEntries, path, order>>
showMat == <<image_duration, video_duration_mode, processed_clips, idx, matPc>>
showSeq == <<transition_duration, transition_type, seqPc>>

ShowInit ==
    /\ output_exists \in BOOLEAN
    /\ answer = <<>>
    /\ title \in {None, Str(""), Str("Trip")}
    /\ include_videos \in BOOLEAN
    /\ soundtrack \in {None, Str("song.mp3")}
    /\ faults = {}
    /\ audio = None
    /\ final_clip = None
    /\ console = <<>>
    /\ steps = <<>>
    /\ showPc = "start"
    /\ dirEntries \in ShowListings
    /\ path = "."
    /\ order = "name"
    /\ files = <<>>
    /\ discError = None
    /\ discPc = "idle"
    /\ media_files = <<>>
    /\ image_duration \in 1..MaxImageDuration
    /\ video_duration_mode = "original"
    /\ processed_clips = <<>>
    /\ idx = 0
    /\ matLog = <<>>
    /\ matResult = None
    /\ matPc = "idle"
    /\ clips = <<>>
    /\ transition_duration \in 0..MaxTd
    /\ transition_type \in {"fade", "crossfade"}
    /\ compositeFails = FALSE
    /\ concatFails = FALSE
    /\ title_slide = None
    /\ composed = None
    /\ warnings = <<>>
    /\ libCalls = <<>>
    /\ seqPc = "idle"

\* if os.path.exists(output): overwrite = input(...).lower() ...
CheckOutput ==
    /\ showPc = "start"
    /\ IF output_exists
       THEN \E typed \in Answers :
               /\ answer' = typed
               /\ steps' = Append(steps, "input")
               /\ IF OverwriteConfirmed(typed)
                  THEN /\ showPc' = "title"
                       /\ console' = console
                  ELSE /\ showPc' = "returned"
                       /\ console' = Append(console, "Operation cancelled")
       ELSE /\ showPc' = "title"
            /\ UNCHANGED <<answer, steps, console>>
    /\ UNCHANGED <<showArgs, faults, audio, final_clip>>
    /\ UNCHANGED <<cropVars, seqVars, discVars, matVars, cliVars, mainVars>>

\* if title: title_slide = create_title_slide(...); a failure there reaches
\* the outer handler
MakeTitleSlide ==
    /\ showPc = "title"
    /\ IF Truthy(title)
       THEN \E fails \in BOOLEAN :
               /\ steps' = Append(steps, "create_title_slide")
               /\ IF fails
                  THEN /\ faults' = faults \cup {"create_title_slide"}
                       /\ console' = Append(console, "An error occurred")
                       /\ showPc' = "raised"
                       /\ title_slide' = title_slide
                  ELSE /\ title_slide' = CreateTitleSlide(image_duration)
                       /\ showPc' = "discover"
                       /\ UNCHANGED <<faults, console>>
       ELSE /\ showPc' = "discover"
            /\ UNCHANGED <<steps, faults, console, title_slide>>
    /\ UNCHANGED <<showArgs, answer, audio, final_clip>>
    /\ UNCHANGED <<clips, transition_duration, transition_type, compositeFails,
                   concatFails, composed, warnings, libCalls, seqPc>>
    /\ UNCHANGED <<cropVars, discVars, matVars, cliVars, mainVars>>

\* media_files = get_media_files(path, image_order), or
\* image_files = get_image_files(path, image_order)
DiscoverMedia ==
    /\ showPc = "discover"
    /\ \E r \in (IF include_videos THEN GetMediaFiles(dirEntries, path, order)
                 ELSE GetImageFiles(dirEntries, path, order)) :
          LET out == DiscoveryOutcome(r)
          IN  /\ steps' = Append(steps, IF include_videos THEN "get_media_files"
                                        ELSE "get_image_files")
              /\ files' = r.files
              /\ discError' = r.raised
              /\ console' = console \o out.console
              /\ showPc' = out.pc
    /\ UNCHANGED <<showArgs, answer, faults, audio, final_clip>>
    /\ UNCHANGED <<showDisc, discPc>>
    /\ UNCHANGED <<cropVars, seqVars, matVars, cliVars, mainVars>>

\* clips = process_media_files(...), or clips = process_images(...)
ProcessMedia ==
    /\ showPc = "process"
    /\ \E mf \in Decodings(files) :
          LET r == IF include_videos
                   THEN ProcessMediaFiles(mf, image_duration, video_duration_mode)
                   ELSE ProcessImages(mf, image_duration)
          IN  /\ media_files' = mf
              /\ steps' = Append(steps, IF include_videos THEN "process_media_files"
                                        ELSE "process_images")
              /\ matLog' = r.log
              /\ IF r.kind = "raised"
                 THEN /\ matResult' = Raised
                      /\ clips' = clips
                      /\ faults' = faults \cup {"process_images"}
                      /\ console' = Append(console, "An error occurred")
                      /\ showPc' = "raised"
                 ELSE /\ matResult' = [kind |-> "list", items |-> r.items]
                      /\ clips' = AsClips(r.items)
                      /\ showPc' = "compose"
                      /\ UNCHANGED <<faults, console>>
    /\ UNCHANGED <<showArgs, answer, audio, final_clip>>
    /\ UNCHANGED <<showMat, showSeq>>
    /\ UNCHANGED <<compositeFails, concatFails, title_slide, composed, warnings,
                   libCalls>>
    /\ UNCHANGED <<cropVars, discVars, cliVars, mainVars>>

\* slideshow_clips, main_slideshow = create_transition_sequence(...),
\* final_clip
ComposeSlideshow ==
    /\ showPc = "compose"
    /\ \E compFails \in BOOLEAN, cFails \in BOOLEAN :
          LET main == CreateTransitionSequence(clips, transition_duration,
                                               transition_type, compFails, cFails)
              slideshow_clips ==
                  (IF title_slide.kind # "None"
                   THEN ShowTitleUnits(title_slide, transition_duration)
                   ELSE <<>>)
                  \o (IF main.result.kind # "None" THEN <<main.result>> ELSE <<>>)
              final == FinalClip(slideshow_clips, clips)
          IN  /\ compositeFails' = compFails
              /\ concatFails' = cFails
              /\ composed' = main.result
              /\ warnings' = main.warnings
              /\ libCalls' = main.libCalls
              /\ steps' = steps \o <<"create_transition_sequence">>
                          \o (IF Len(slideshow_clips) > 1
                              THEN <<"concatenate_videoclips">> ELSE <<>>)
              /\ IF final.kind = "raised"
                 THEN /\ final_clip' = final_clip
                      /\ console' = Append(console, "An error occurred")
                      /\ showPc' = "raised"
                 ELSE /\ final_clip' = final
                      /\ console' = console
                      /\ showPc' = "soundtrack"
    /\ UNCHANGED <<showArgs, answer, faults, audio>>
    /\ UNCHANGED <<clips, title_slide, showSeq>>
    /\ UNCHANGED <<cropVars, discVars, matVars, cliVars, mainVars>>

\* if soundtrack: ... final_clip = final_clip.set_audio(audio)
AddSoundtrack ==
    /\ showPc = "soundtrack"
    /\ IF Truthy(soundtrack)
       THEN \E loads \in BOOLEAN, a \in 1..MaxAudio :
               LET out == SoundtrackOutcome(loads, a, final_clip.duration)
               IN  /\ audio' = out.audio
                   /\ console' = console \o out.console
                   /\ steps' = steps \o out.steps
                   /\ faults' = IF loads THEN faults
                                ELSE faults \cup {"AudioFileClip"}
                   /\ showPc' = out.pc
       ELSE /\ showPc' = "render"
            /\ UNCHANGED <<audio, console, steps, faults>>
    /\ UNCHANGED <<showArgs, answer, final_clip>>
    /\ UNCHANGED <<cropVars, seqVars, discVars, matVars, cliVars, mainVars>>

\* final_clip.write_videofile(...) and the closing message
RenderVideo ==
    /\ showPc = "render"
    /\ \E fails \in BOOLEAN :
          LET out == RenderOutcome(fails)
          IN  /\ steps' = Append(steps, "write_videofile")
              /\ faults' = IF fails THEN faults \cup {"write_videofile"} ELSE faults
              /\ console' = console \o out.console
              /\ showPc' = out.pc
    /\ UNCHANGED <<showArgs, answer, audio, final_clip>>
    /\ UNCHANGED <<cropVars, seqVars, discVars, matVars, cliVars, mainVars>>

ShowIdle ==
    /\ output_exists = FALSE
    /\ answer = <<>>
    /\ title = None
    /\ include_videos = TRUE
    /\ soundtrack = None
    /\ faults = {}
    /\ audio = None
    /\ final_clip = None
    /\ console = <<>>
    /\ steps = <<>>
    /\ showPc = "idle"

-----------------------------------------------------------------------------
(***************************************************************************)
(* The command line and the config file: sly/cli.py and sly/config.py.     *)
(*                                                                         *)
(* The attributes of the Namespace are named by the code points of their   *)
(* names, so that key.replace("_", "-") is computed.  A value is None, a   *)
(* string, an int, a float (nan: it is not a number) or a bool.            *)
(***************************************************************************)

\* the dest of every add_argument call, spelt in code points
opt ==
    [config |-> <<99, 111, 110, 102, 105, 103>>,
     path |-> <<112, 97, 116, 104>>,
     image_duration |-> <<105, 109, 97, 103, 101, 95, 100, 117, 114, 97, 116, 105, 111, 110>>,
     image_order |-> <<105, 109, 97, 103, 101, 95, 111, 114, 100, 101, 114>>,
     transition_duration |-> <<116, 114, 97, 110, 115, 105, 116, 105, 111, 110, 95, 100, 117, 114, 97, 116, 105, 111, 110>>,
     transition_type |-> <<116, 114, 97, 110, 115, 105, 116, 105, 111, 110, 95, 116, 121, 112, 101>>,
     slideshow_width |-> <<115, 108, 105, 100, 101, 115, 104, 111, 119, 95, 119, 105, 100, 116, 104>>,
     slideshow_height |-> <<115, 108, 105, 100, 101, 115, 104, 111, 119, 95, 104, 101, 105, 103, 104, 116>>,
     output |-> <<111, 117, 116, 112, 117, 116>>,
     title |-> <<116, 105, 116, 108, 101>>,
     font |-> <<102, 111, 110, 116>>,
     font_size |-> <<102, 111, 110, 116, 95, 115, 105, 122, 101>>,
     soundtrack |-> <<115, 111, 117, 110, 100, 116, 114, 97, 99, 107>>,
     fps |-> <<102, 112, 115>>,
     verbose |-> <<118, 101, 114, 98, 111, 115, 101>>,
     list_fonts |-> <<108, 105, 115, 116, 95, 102, 111, 110, 116, 115>>,
     video_duration_mode |-> <<118, 105, 100, 101, 111, 95, 100, 117, 114, 97, 116, 105, 111, 110, 95, 109, 111, 100, 101>>,
     include_videos |-> <<105, 110, 99, 108, 117, 100, 101, 95, 118, 105, 100, 101, 111, 115>>,
     images_only |-> <<105, 109, 97, 103, 101, 115, 95, 111, 110, 108, 121>>]

Options == {opt[f] : f \in DOMAIN opt}

\* the flags declared action="store_true" with no default: absent, they are
\* False.  (--include-videos is declared with default=None.)
StoreTrueFlags == {opt.verbose, opt.list_fonts, opt.images_only}

IntVal(v) == [kind |-> "int", v |-> v]
FloatVal(v) == [kind |-> "float", nan |-> FALSE, v |-> v]
NaN == [kind |-> "float", nan |-> TRUE, v |-> 0]
BoolVal(b) == [kind |-> "bool", b |-> b]

\* key.replace("_", "-")
Replace(key) == [i \in 1..Len(key) |-> IF key[i] = 95 THEN 45 ELSE key[i]]

\* the value an option has when it is given on the command line
CliValue(o) ==
    CASE o = opt.config -> Str("my.toml")
      [] o = opt.path -> Str("photos")
      [] o = opt.image_duration -> FloatVal(5)
      [] o = opt.image_order -> Str("date")
      [] o = opt.transition_duration -> FloatVal(2)
      [] o = opt.transition_type -> Str("fade")
      [] o = opt.slideshow_width -> IntVal(1280)
      [] o = opt.slideshow_height -> IntVal(720)
      [] o = opt.output -> Str("out.mp4")
      [] o = opt.title -> Str("Trip")
      [] o = opt.font -> Str("a.ttf")
      [] o = opt.font_size -> IntVal(48)
      [] o = opt.soundtrack -> Str("song.mp3")
      [] o = opt.fps -> FloatVal(30)
      [] o = opt.video_duration_mode -> Str("limit")
      [] o \in {opt.verbose, opt.list_fonts, opt.include_videos,
                opt.images_only} -> BoolVal(TRUE)

\* the value the config file gives under the key that mirrors option o
ConfigValue(o) ==
    CASE o = opt.config -> Str("other.toml")
      [] o = opt.path -> Str("pics")
      [] o = opt.image_duration -> FloatVal(7)
      [] o = opt.image_order -> Str("random")
      [] o = opt.transition_duration -> FloatVal(0)
      [] o = opt.transition_type -> Str("wipe")
      [] o = opt.slideshow_width -> IntVal(640)
      [] o = opt.slideshow_height -> IntVal(480)
      [] o = opt.output -> Str("cfg.mp4")
      [] o = opt.title -> Str("Album")
      [] o = opt.font -> Str("b.ttf")
      [] o = opt.font_size -> IntVal(12)
      [] o = opt.soundtrack -> Str("tune.ogg")
      [] o = opt.fps -> FloatVal(60)
      [] o = opt.video_duration_mode -> Str("fixed")
      [] o = opt.include_videos -> BoolVal(FALSE)
      [] o \in {opt.verbose, opt.list_fonts, opt.images_only} -> BoolVal(TRUE)

\* the lines a config file can hold: a key with its value.  Besides the keys
\* that mirror the options there are "colour", which mirrors nothing, and
\* "image_duration", spelt with an underscore.
ConfigEntries ==
    {<<Replace(o), ConfigValue(o)>> : o \in Options}
    \cup {<<<<99, 111, 108, 111, 117, 114>>, Str("red")>>,
          <<opt.image_duration, FloatVal(9)>>}

\* the subsets of base with up to n elements
RECURSIVE SetsUpTo(_, _)
SetsUpTo(base, n) ==
    IF n = 0 THEN {{}}
    ELSE SetsUpTo(base, n - 1)
         \cup {S \cup {x} : S \in SetsUpTo(base, n - 1), x \in base}

\* the tables toml.load can return: up to MaxKeys keys
ConfigTables ==
    {[k \in S |-> (CHOOSE e \in ConfigEntries : e[1] = k)[2]] :
        S \in SetsUpTo({e[1] : e \in ConfigEntries}, MaxKeys)}

\* the command lines: up to MaxGiven options given
CommandLines == {[o \in S |-> CliValue(o)] : S \in SetsUpTo(Options, MaxGiven)}

default_config == "config.toml"
\* os.path.expanduser("~/.config/sly/config.toml")
user_config == "/home/user/.config/sly/config.toml"
CandidatePaths == {"my.toml", default_config, user_config}

\* get_config_path looking in the user's directory first
GetConfigPathUserFirst(custom_path, ex) ==
    IF Truthy(custom_path) /\ custom_path.s \in ex THEN custom_path.s
    ELSE IF user_config \in ex THEN user_config
    ELSE default_config

\* get_config_path(custom_path); ex: the paths for which os.path.exists is
\* true
GetConfigPath(custom_path, ex) ==
    IF Truthy(custom_path) /\ custom_path.s \in ex THEN custom_path.s
    ELSE IF default_config \in ex THEN default_config
    ELSE IF user_config \in ex THEN user_config
    ELSE default_config

\* load_config_file(config_path): the table and what is printed.  file is
\* what is on disk at config_path: a table, and whether it parses.
LoadConfigFile(cp, ex, file) ==
    IF cp \notin ex
    THEN [config |-> [k \in {} |-> None],
          log |-> <<[text |-> "Config file not found", path |-> cp]>>]
    ELSE IF ~file.parses
    THEN [config |-> [k \in {} |-> None],
          log |-> <<[text |-> "Error loading config file", path |-> cp]>>]
    ELSE [config |-> file.toml, log |-> <<>>]

\* args = parser.parse_args() for the command line av
ParseArgs(av) ==
    [o \in Options |->
        IF o \in DOMAIN av THEN av[o]
        ELSE IF o \in StoreTrueFlags THEN BoolVal(FALSE)
        ELSE None]

\* the merge with the config value taken whenever the key is there
MergedConfigFirst(ns, cfg) ==
    [o \in Options |->
        IF Replace(o) \in DOMAIN cfg THEN cfg[Replace(o)] ELSE ns[o]]

\* for key, value in vars(args).items():
\*     if value is None and key.replace("_", "-") in config: setattr(...)
Merged(ns, cfg) ==
    [o \in Options |->
        IF ns[o].kind = "None" /\ Replace(o) \in DOMAIN cfg
        THEN cfg[Replace(o)]
        ELSE ns[o]]

\* the defaults set for the parameters still None
BuiltIn(o) ==
    CASE o = opt.path -> Str(".")
      [] o = opt.image_duration -> FloatVal(3)
      [] o = opt.image_order -> Str("name")
      [] o = opt.transition_duration -> FloatVal(1)
      [] o = opt.transition_type -> Str("crossfade")
      [] o = opt.slideshow_width -> IntVal(1920)
      [] o = opt.slideshow_height -> IntVal(1080)
      [] o = opt.output -> Str("slideshow.mp4")
      [] o = opt.fps -> FloatVal(24)
      [] o = opt.video_duration_mode -> Str("original")
      [] OTHER -> None

WithDefaults(ns) ==
    [o \in Options |-> IF ns[o].kind = "None" THEN BuiltIn(o) ELSE ns[o]]

\* `if x:` for a value of the Namespace
IsTrue(x) ==
    CASE x.kind = "None" -> FALSE
      [] x.kind = "bool" -> x.b
      [] x.kind = "str" -> x.s # ""
      [] x.kind = "int" -> x.v # 0
      [] x.kind = "float" -> x.nan \/ x.v # 0

\* if args.images_only: args.include_videos = False
\* elif args.include_videos is None: args.include_videos = True
VideoInclusion(ns) ==
    [ns EXCEPT ![opt.include_videos] =
        IF IsTrue(ns[opt.images_only]) THEN BoolVal(FALSE)
        ELSE IF @.kind = "None" THEN BoolVal(TRUE)
        ELSE @]

\* parse_arguments() for the command line av, the existing paths ex and the
\* file found at the config path
ParseArguments(av, ex, file) ==
    LET parsed == ParseArgs(av)
        cp == GetConfigPath(parsed[opt.config], ex)
        loaded == LoadConfigFile(cp, ex, file)
        final == VideoInclusion(WithDefaults(Merged(parsed, loaded.config)))
    IN  [args |-> final, config_path |-> cp, config |-> loaded.config,
         log |-> loaded.log
                 \o (IF IsTrue(final[opt.verbose])
                     THEN <<[text |-> "Configuration loaded from", path |-> cp]>>
                     ELSE <<>>)]

\* x <= c and x < c for a number of the Namespace: false for nan
NumLe(x, c) == IF x.kind = "float" /\ x.nan THEN FALSE ELSE x.v <= c
NumLt(x, c) == IF x.kind = "float" /\ x.nan THEN FALSE ELSE x.v < c

\* validate_arguments(args): what it returns and what it prints
ValidateArguments(ns) ==
    IF ~IsTrue(ns[opt.path])
    THEN [valid |-> FALSE, log |-> <<"Path to media directory is required">>]
    ELSE IF NumLe(ns[opt.image_duration], 0)
    THEN [valid |-> FALSE, log |-> <<"Image duration must be positive">>]
    ELSE IF NumLt(ns[opt.transition_duration], 0)
    THEN [valid |-> FALSE, log |-> <<"Transition duration cannot be negative">>]
    ELSE IF NumLe(ns[opt.slideshow_width], 0) \/ NumLe(ns[opt.slideshow_height], 0)
    THEN [valid |-> FALSE, log |-> <<"Slideshow dimensions must be positive">>]
    ELSE IF NumLe(ns[opt.fps], 0)
    THEN [valid |-> FALSE, log |-> <<"FPS must be positive">>]
    ELSE IF ns[opt.image_order] \notin {Str("name"), Str("date"), Str("random")}
    THEN [valid |-> FALSE,
          log |-> <<"Media order must be 'name', 'date', or 'random'">>]
    ELSE [valid |-> TRUE, log |-> <<>>]

\* what can be on disk at the config path: nothing, a file toml.load
\* rejects, or a table
FilesAt(cp, ex) ==
    IF cp \notin ex THEN {[toml |-> [k \in {} |-> None], parses |-> FALSE]}
    ELSE {[toml |-> [k \in {} |-> None], parses |-> FALSE]}
         \cup {[toml |-> t, parses |-> TRUE] : t \in ConfigTables}

CliInit ==
    /\ argv \in CommandLines
    /\ exists \in SUBSET CandidatePaths
    /\ config_path = ""
    /\ config = [k \in {} |-> None]
    /\ args = [o \in {} |-> None]
    /\ valid = None
    /\ cliLog = <<>>
    /\ cliPc = "start"

\* a call of parse_arguments()
CallParseArguments ==
    /\ cliPc = "start"
    /\ \E file \in FilesAt(GetConfigPath(ParseArgs(argv)[opt.config], exists),
                            exists) :
          LET r == ParseArguments(argv, exists, file)
          IN  /\ args' = r.args
              /\ config_path' = r.config_path
              /\ config' = r.config
              /\ cliLog' = r.log
    /\ cliPc' = "parse_arguments"
    /\ UNCHANGED <<argv, exists, valid>>
    /\ UNCHANGED <<cropVars, seqVars, discVars, matVars, showVars, mainVars>>

\* the Namespace with no option given and no config file
Baseline ==
    VideoInclusion(WithDefaults(ParseArgs([o \in {} |-> None])))

\* the Namespaces validate_arguments is called with
Namespaces ==
    {[Baseline EXCEPT ![opt.path] = p,
                      ![opt.image_duration] = d,
                      ![opt.transition_duration] = t,
                      ![opt.slideshow_width] = w,
                      ![opt.slideshow_height] = h,
                      ![opt.fps] = f,
                      ![opt.image_order] = io] :
        p \in {None, Str(""), Str(".")},
        d \in {FloatVal(-1), FloatVal(0), FloatVal(1), FloatVal(3), NaN},
        t \in {FloatVal(-1), FloatVal(0), FloatVal(1), FloatVal(3), NaN},
        w \in {IntVal(-1), IntVal(0), IntVal(1920)},
        h \in {IntVal(-1), IntVal(0), IntVal(1080)},
        f \in {FloatVal(0), FloatVal(24), NaN},
        io \in {Str("name"), Str("date"), Str("random"), Str("size"), Str("Name")}}

ValidateInit ==
    /\ argv = [o \in {} |-> None]
    /\ exists = {}
    /\ config_path = ""
    /\ config = [k \in {} |-> None]
    /\ args \in Namespaces
    /\ valid = None
    /\ cliLog = <<>>
    /\ cliPc = "namespace"

\* a call of validate_arguments(args)
CallValidateArguments ==
    /\ cliPc = "namespace"
    /\ LET r == ValidateArguments(args)
       IN  /\ valid' = BoolVal(r.valid)
           /\ cliLog' = r.log
    /\ cliPc' = "validate_arguments"
    /\ UNCHANGED <<argv, exists, config_path, config, args>>
    /\ UNCHANGED <<cropVars, seqVars, discVars, matVars, showVars, mainVars>>

CliIdle ==
    /\ argv = [o \in {} |-> None]
    /\ exists = {}
    /\ config_path = ""
    /\ config = [k \in {} |-> None]
    /\ args = [o \in {} |-> None]
    /\ valid = None
    /\ cliLog = <<>>
    /\ cliPc = "idle"

-----------------------------------------------------------------------------
(***************************************************************************)
(* The entry point: sly/cli.py main                                        *)
(***************************************************************************)

\* The exceptions a call made by main can end with.  parser.parse_args()
\* leaves through SystemExit for --help and for a usage error; any call can
\* fail with an Exception or be interrupted from the keyboard.
Exceptions(callee) ==
    IF callee = "parse_arguments"
    THEN {"SystemExit", "KeyboardInterrupt", "Exception"}
    ELSE {"KeyboardInterrupt", "Exception"}

\* main's except clauses reporting an Exception and raising it again
HandledReraising(e, ns) ==
    IF e = "KeyboardInterrupt"
    THEN [log |-> <<"Operation cancelled by user">>, escaped |-> None]
    ELSE IF e = "Exception"
    THEN [log |-> <<"Error">>, escaped |-> Str(e)]
    ELSE [log |-> <<>>, escaped |-> Str(e)]

\* main's except clauses for exception e, the local args being ns (empty
\* while parse_arguments has not returned): what is printed and the
\* exception that leaves main.  SystemExit is no Exception and matches
\* neither clause.
Handled(e, ns) ==
    IF e = "KeyboardInterrupt"
    THEN [log |-> <<"Operation cancelled by user">>, escaped |-> None]
    ELSE IF e = "Exception"
    THEN [log |-> <<"Error">>
                  \o (IF DOMAIN ns # {} /\ IsTrue(ns[opt.verbose])
                      THEN <<"Traceback">> ELSE <<>>),
          escaped |-> None]
    ELSE [log |-> <<>>, escaped |-> Str(e)]

\* a call inside main's try block raises e
Caught(e) ==
    LET h == Handled(e, args)
    IN  /\ cliLog' = cliLog \o h.log
        /\ escaped' = h.escaped
        /\ mainPc' = IF h.escaped = None THEN "returned" ELSE "escaped"

\* the Namespaces parse_arguments hands to main: path is never None once the
\* defaults are set
MainNamespaces ==
    {[n EXCEPT ![opt.list_fonts] = BoolVal(lf), ![opt.verbose] = BoolVal(v)] :
        n \in {m \in Namespaces : m[opt.path] # None},
        lf \in BOOLEAN, v \in BOOLEAN}

MainInit ==
    /\ argv = [o \in {} |-> None]
    /\ exists = {}
    /\ config_path = ""
    /\ config = [k \in {} |-> None]
    /\ args = [o \in {} |-> None]
    /\ valid = None
    /\ cliLog = <<>>
    /\ cliPc = "main"
    /\ mainCalls = <<>>
    /\ escaped = None
    /\ mainPc = "start"

\* args = parse_arguments()
MainParseArguments ==
    /\ mainPc = "start"
    /\ mainCalls' = Append(mainCalls, "parse_arguments")
    /\ \/ /\ args' \in MainNamespaces
          /\ mainPc' = "parsed"
          /\ UNCHANGED <<cliLog, escaped>>
       \/ /\ \E e \in Exceptions("parse_arguments") : Caught(e)
          /\ UNCHANGED args
    /\ UNCHANGED <<argv, exists, config_path, config, valid, cliPc>>
    /\ UNCHANGED <<cropVars, seqVars, discVars, matVars, showVars>>

\* if args.list_fonts: list_fonts(); return
MainListFonts ==
    /\ mainPc = "parsed"
    /\ IsTrue(args[opt.list_fonts])
    /\ mainCalls' = Append(mainCalls, "list_fonts")
    /\ \/ /\ mainPc' = "returned"
          /\ UNCHANGED <<cliLog, escaped>>
       \/ \E e \in Exceptions("list_fonts") : Caught(e)
    /\ UNCHANGED <<argv, exists, config_path, config, args, valid, cliPc>>
    /\ UNCHANGED <<cropVars, seqVars, discVars, matVars, showVars>>

\* if not validate_arguments(args): return
MainValidateArguments ==
    /\ mainPc = "parsed"
    /\ ~IsTrue(args[opt.list_fonts])
    /\ mainCalls' = Append(mainCalls, "validate_arguments")
    /\ \/ LET r == ValidateArguments(args)
          IN  /\ valid' = BoolVal(r.valid)
              /\ cliLog' = cliLog \o r.log
              /\ mainPc' = IF r.valid THEN "validated" ELSE "returned"
              /\ UNCHANGED escaped
       \/ /\ \E e \in Exceptions("validate_arguments") : Caught(e)
          /\ UNCHANGED valid
    /\ UNCHANGED <<argv, exists, config_path, config, args, cliPc>>
    /\ UNCHANGED <<cropVars, seqVars, discVars, matVars, showVars>>

\* creator = SlideshowCreator(); creator.create_slideshow(...)
MainCreateSlideshow ==
    /\ mainPc = "validated"
    /\ mainCalls' = mainCalls \o <<"SlideshowCreator", "create_slideshow">>
    /\ \/ /\ mainPc' = "returned"
          /\ UNCHANGED <<cliLog, escaped>>
       \/ \E e \in Exceptions("create_slideshow") : Caught(e)
    /\ UNCHANGED <<argv, exists, config_path, config, args, valid, cliPc>>
    /\ UNCHANGED <<cropVars, seqVars, discVars, matVars, showVars>>

MainIdle ==
    /\ mainCalls = <<>>
    /\ escaped = None
    /\ mainPc = "idle"

MatIdle ==
    /\ media_files = <<>>
    /\ image_duration = 1
    /\ video_duration_mode = "original"
    /\ processed_clips = <<>>
    /\ idx = 0
    /\ matLog = <<>>
    /\ matResult = None
    /\ matPc = "idle"

SeqIdle ==
    /\ clips = <<>>
    /\ transition_duration = 0
    /\ transition_type = "crossfade"
    /\ compositeFails = FALSE
    /\ concatFails = FALSE
    /\ title_slide = None
    /\ composed = None
    /\ warnings = <<>>
    /\ libCalls = <<>>
    /\ seqPc = "idle"

DiscIdle ==
    /\ dirEntries = <<>>
    /\ path = "."
    /\ order = "name"
    /\ files = <<>>
    /\ discError = None
    /\ discPc = "idle"

CropIdle ==
    /\ original = [width |-> 1, height |-> 1]
    /\ target_width = 1
    /\ target_height = 1
    /\ image = original
    /\ crop_box = <<>>
    /\ cropPc = "idle"

CropNext == ResizeAndCrop
InitCrop == CropInit /\ SeqIdle /\ DiscIdle /\ MatIdle /\ ShowIdle /\ CliIdle /\ MainIdle
SpecCrop == InitCrop /\ [][CropNext]_vars

SeqNext ==
    \/ CallCreateTransitionSequence
    \/ CallCreateFadeSequence
    \/ CallCreateCrossfadeSequence
    \/ CallApplyTransitions
InitSeq == SeqInit /\ CropIdle /\ DiscIdle /\ MatIdle /\ ShowIdle /\ CliIdle /\ MainIdle
SpecSeq == InitSeq /\ [][SeqNext]_vars

DiscNext == CallGetMediaFiles \/ CallGetImageFiles
InitDisc == DiscInit /\ CropIdle /\ SeqIdle /\ MatIdle /\ ShowIdle /\ CliIdle /\ MainIdle
SpecDisc == InitDisc /\ [][DiscNext]_vars

MatNext ==
    \/ EnterProcessMediaFiles
    \/ ProcessMediaFile
    \/ ReturnProcessMediaFiles
    \/ EnterProcessImages
    \/ ProcessImage
    \/ ReturnProcessImages
InitMat == MatInit /\ CropIdle /\ SeqIdle /\ DiscIdle /\ ShowIdle /\ CliIdle /\ MainIdle
SpecMat == InitMat /\ [][MatNext]_vars

ShowNext ==
    \/ CheckOutput
    \/ MakeTitleSlide
    \/ DiscoverMedia
    \/ ProcessMedia
    \/ ComposeSlideshow
    \/ AddSoundtrack
    \/ RenderVideo
InitShow == ShowInit /\ CropIdle /\ CliIdle /\ MainIdle
SpecShow == InitShow /\ [][ShowNext]_vars

CliNext == CallParseArguments
InitCli == CliInit /\ CropIdle /\ SeqIdle /\ DiscIdle /\ MatIdle /\ ShowIdle /\ MainIdle
SpecCli == InitCli /\ [][CliNext]_vars

ValidateNext == CallValidateArguments
InitValidate ==
    ValidateInit /\ CropIdle /\ SeqIdle /\ DiscIdle /\ MatIdle /\ ShowIdle
    /\ MainIdle
SpecValidate == InitValidate /\ [][ValidateNext]_vars

MainNext ==
    \/ MainParseArguments
    \/ MainListFonts
    \/ MainValidateArguments
    \/ MainCreateSlideshow
InitMain == MainInit /\ CropIdle /\ SeqIdle /\ DiscIdle /\ MatIdle /\ ShowIdle
SpecMain == InitMain /\ [][MainNext]_vars

-----------------------------------------------------------------------------
(***************************************************************************)
(* Properties                                                              *)
(***************************************************************************)

\* C1: for all positive source and target dimensions resize_and_crop
\* completes and returns an image of exactly (target_width, target_height).
C1_ExactTargetSize ==
    cropPc # "start" =>
        /\ cropPc = "done"
        /\ image = [width |-> target_width, height |-> target_height]

\* A 1x1 source stretched to the widest target: the crop box is empty.
C1_Witness ==
    /\ cropPc = "done"
    /\ original = [width |-> 1, height |-> 1]
    /\ target_width = MaxDim
    /\ target_height = 1
    /\ crop_box[2] = crop_box[4]
    /\ image = [width |-> MaxDim, height |-> 1]

\* the clip list has n >= 1 clips, each of duration d
Uniform(d) ==
    /\ Len(clips) >= 1
    /\ \A i \in 1..Len(clips) : clips[i].duration = d

FadeStyleRan ==
    \/ seqPc = "create_fade_sequence"
    \/ seqPc = "create_transition_sequence" /\ transition_type = "fade"

LegacyRan == seqPc = "apply_transitions" /\ title_slide = None

\* C2 as stated: n clips of duration d composed in the fade-to-black style
\* with transition t < d and no title last n*d - (n-1)*t.
C2_Original ==
    \A d \in 1..MaxDur :
        ((FadeStyleRan \/ LegacyRan) /\ Uniform(d) /\ transition_duration < d) =>
            composed.duration =
                Len(clips) * d - (Len(clips) - 1) * transition_duration

\* C2, amended: create_fade_sequence places the n clips back to back, n*d in
\* all; apply_transitions of sly.py yields d for one clip and
\* (2n-1)*d - (n-2)*t for n >= 2 clips.
C2_FadeDuration ==
    \A d \in 1..MaxDur :
        (Uniform(d) /\ transition_duration < d) =>
            /\ FadeStyleRan => composed.duration = Len(clips) * d
            /\ LegacyRan =>
                 composed.duration =
                    IF Len(clips) = 1 THEN d
                    ELSE (2 * Len(clips) - 1) * d
                         - (Len(clips) - 2) * transition_duration

\* 3 clips of 3 ticks with a transition of 1 tick, fade style: 9 ticks.
C2_Witness ==
    /\ seqPc = "create_transition_sequence"
    /\ transition_type = "fade"
    /\ Len(clips) = 3
    /\ Uniform(3)
    /\ transition_duration = 1
    /\ composed.duration = 9

CrossfadeRan ==
    \/ seqPc = "create_crossfade_sequence"
    \/ seqPc = "create_transition_sequence" /\ transition_type # "fade"

\* C3: when the crossfade style layers n >= 2 clips, clip 1 starts at 0 and
\* every later clip i starts at the start of clip i-1 plus that clip's
\* duration minus the transition duration, the last clip included.
C3_CrossfadeOffsets ==
    (CrossfadeRan /\ Len(clips) >= 2 /\ ~compositeFails) =>
        /\ composed.kind = "composite"
        /\ Len(composed.layers) = Len(clips)
        /\ composed.layers[1].start = 0
        /\ \A i \in 1..Len(clips) : composed.layers[i].id = i
        /\ \A i \in 2..Len(clips) :
              composed.layers[i].start =
                  composed.layers[i - 1].start + clips[i - 1].duration
                  - transition_duration

C3_Witness ==
    /\ seqPc = "create_crossfade_sequence"
    /\ ~compositeFails
    /\ Len(clips) = 3
    /\ clips[1].duration = 3
    /\ clips[2].duration = 2
    /\ transition_duration = 1
    /\ composed.layers[3].start = 3

\* C4 as stated: a 1-element list composed through any of the three
\* functions comes back as that clip with a fade-in and a fade-out of
\* transition_duration, and nothing is composited or concatenated.
C4_SingleClip ==
    (/\ seqPc \in {"create_transition_sequence", "create_fade_sequence",
                   "create_crossfade_sequence"}
     /\ Len(clips) = 1) =>
        /\ composed = FadeOut(FadeIn(clips[1], 2 * transition_duration),
                              2 * transition_duration)
        /\ libCalls = <<>>

UnknownStyleRan ==
    /\ seqPc = "create_transition_sequence"
    /\ transition_type \notin {"fade", "crossfade"}

\* what the same call returns for "crossfade"
AsCrossfade ==
    CreateTransitionSequence(clips, transition_duration, "crossfade",
                             compositeFails, concatFails)

\* C5 as stated: an unknown style gives the result of "crossfade", exactly
\* one warning and no exception, for every clip list.
C5_Original ==
    UnknownStyleRan =>
        /\ composed = AsCrossfade.result
        /\ composed.kind # "raised"
        /\ Len(warnings) = 1

\* C5, amended: an unknown style gives the result of "crossfade" and no
\* exception; the unknown-type warning is printed exactly once, ahead of the
\* warnings of the crossfade path, when there are two or more clips, and not
\* at all for fewer.
C5_UnknownStyle ==
    UnknownStyleRan =>
        /\ composed = AsCrossfade.result
        /\ composed.kind # "raised"
        /\ libCalls = AsCrossfade.libCalls
        /\ warnings =
              (IF Len(clips) >= 2 THEN <<"Unknown transition type">> ELSE <<>>)
              \o AsCrossfade.warnings

C5_Witness ==
    /\ UnknownStyleRan
    /\ transition_type = "wipe"
    /\ Len(clips) = 2
    /\ ~compositeFails
    /\ composed.kind = "composite"
    /\ warnings = <<"Unknown transition type">>

\* the name ends, whatever the case of its letters, in the extension ext and
\* is longer than it
EndsIn(name, ext) ==
    /\ Len(name) > Len(ext)
    /\ \A k \in 1..Len(ext) :
          LET c == name[Len(name) - Len(ext) + k]
          IN  \/ c = ext[k]
              \/ c \in 65..90 /\ c + 32 = ext[k]

\* the entries of the directory recognized by the function that ran
Recognized ==
    {dirEntries[i] : i \in
        {j \in 1..Len(dirEntries) :
            \E ext \in (IF discPc = "get_image_files" THEN image_extensions
                        ELSE all_extensions) : EndsIn(dirEntries[j].name, ext)}}

DiscoveryRan ==
    /\ discPc \in {"get_media_files", "get_image_files"}
    /\ order \in {"name", "date", "random"}

\* C6: for the orders name, date and random, discovery returns each
\* recognized entry of the directory exactly once and nothing else; when no
\* entry is recognized it raises FileNotFoundError with a message that
\* carries the directory path, instead of returning an empty list.
C6_DiscoveryIsPermutation ==
    DiscoveryRan =>
        IF Recognized = {}
        THEN /\ discError.kind = "FileNotFoundError"
             /\ discError.path = path
        ELSE /\ discError = None
             /\ Len(files) = Cardinality(Recognized)
             /\ {files[i] : i \in 1..Len(files)} = Recognized

C6_Witness ==
    /\ discPc = "get_media_files"
    /\ order = "random"
    /\ Len(dirEntries) = 3
    /\ dirEntries[1].name = <<66, 46, 80, 78, 71>>
    /\ dirEntries[2].name = <<110, 46, 116, 120, 116>>
    /\ dirEntries[3].name = <<97, 46, 109, 112, 52>>
    /\ Len(files) = 2
    /\ files[1].name = <<97, 46, 109, 112, 52>>
    /\ files[2].name = <<66, 46, 80, 78, 71>>

\* C7: for order name the returned names ascend strictly in code-point
\* order (and the list holds exactly the recognized entries); for order date
\* the modification times of the returned list never decrease.
C7_Ordering ==
    (DiscoveryRan /\ discError = None) =>
        /\ order = "name" =>
              /\ {files[i] : i \in 1..Len(files)} = Recognized
              /\ \A i, j \in 1..Len(files) :
                    i < j => StrLess(files[i].name, files[j].name)
        /\ order = "date" =>
              \A i, j \in 1..Len(files) : i < j => files[i].mtime <= files[j].mtime

\* b.jpg, a.mp4, B.PNG listed in that order come back as B.PNG, a.mp4, b.jpg.
C7_Witness ==
    /\ discPc = "get_media_files"
    /\ order = "name"
    /\ Len(dirEntries) = 3
    /\ dirEntries[1].name = <<98, 46, 106, 112, 103>>
    /\ dirEntries[2].name = <<97, 46, 109, 112, 52>>
    /\ Len(files) = 3
    /\ files[1].name = <<66, 46, 80, 78, 71>>
    /\ files[2].name = <<97, 46, 109, 112, 52>>
    /\ files[3].name = <<98, 46, 106, 112, 103>>

\* C8: a video of native duration v becomes a clip of duration v in mode
\* "original", image_duration in mode "fixed" and min(v, 3 * image_duration)
\* in mode "limit"; in mode "limit" a video no longer than
\* 3 * image_duration has its duration left alone.
C8_VideoDuration ==
    \A k \in 1..Len(processed_clips) :
        LET c == processed_clips[k]
            v == media_files[c.file].native
        IN  (matPc \in {"media_loop", "process_media_files"} /\ c.kind = "video") =>
                /\ video_duration_mode = "original" =>
                      c.duration = v /\ c.cut = "none"
                /\ video_duration_mode = "fixed" => c.duration = image_duration
                /\ video_duration_mode = "limit" =>
                      /\ c.duration =
                            IF v < 3 * image_duration THEN v ELSE 3 * image_duration
                      /\ v <= 3 * image_duration => c.cut = "none"

\* a video of 10 ticks with image_duration 3 in mode "limit" lasts 9 ticks
C8_Witness ==
    /\ matPc = "process_media_files"
    /\ video_duration_mode = "limit"
    /\ image_duration = 3
    /\ Len(media_files) = 1
    /\ media_files[1].native = 10
    /\ Len(matResult.items) = 1
    /\ matResult.items[1].duration = 9
    /\ matResult.items[1].cut = "subclip"

\* the supported files of the list that decode
Decoded ==
    {i \in 1..Len(media_files) :
        /\ media_files[i].decodes
        /\ IsVideoFile(media_files[i].name) \/ IsImageFile(media_files[i].name)}

\* C9: process_media_files never raises: it visits every file, and returns
\* one clip for each supported file that decodes, in input order;
\* process_images raises at the first file that fails to decode and returns
\* no list then.
C9_DecodeFailures ==
    /\ matPc = "process_media_files" =>
          /\ matResult.kind = "list"
          /\ Len(matLog) = Len(media_files)
          /\ \A i \in 1..Len(matLog) : matLog[i][2] = i
          /\ Len(matResult.items) = Cardinality(Decoded)
          /\ \A k \in 1..Len(matResult.items) : matResult.items[k].file \in Decoded
          /\ \A k, l \in 1..Len(matResult.items) :
                k < l => matResult.items[k].file < matResult.items[l].file
    /\ matPc = "process_images" =>
          IF \E i \in 1..Len(media_files) : ~media_files[i].decodes
          THEN /\ matResult.kind = "raised"
               /\ ~media_files[idx].decodes
               /\ \A j \in 1..(idx - 1) : media_files[j].decodes
          ELSE /\ matResult.kind = "list"
               /\ Len(matResult.items) = Len(media_files)
               /\ \A k \in 1..Len(media_files) : matResult.items[k].file = k

\* a corrupt b.jpg followed by a good a.mp4: the video is still processed
C9_Witness ==
    /\ matPc = "process_media_files"
    /\ Len(media_files) = 2
    /\ media_files[1].name = <<98, 46, 106, 112, 103>>
    /\ ~media_files[1].decodes
    /\ media_files[2].name = <<97, 46, 109, 112, 52>>
    /\ media_files[2].decodes
    /\ Len(matResult.items) = 1
    /\ matResult.items[1].file = 2
    /\ matLog[1][1] = "Error processing"

\* C10: when building the layered composition fails, the crossfade path
\* warns and returns the clips concatenated back to back in input order, the
\* first with a fade-in only, the last with a fade-out only and the others
\* as they came.
C10_CrossfadeFallback ==
    (CrossfadeRan /\ Len(clips) >= 2 /\ compositeFails) =>
        /\ composed.kind = "concat"
        /\ \E i \in 1..Len(warnings) : warnings[i] = "Crossfade failed"
        /\ Len(composed.layers) = Len(clips)
        /\ \A i \in 1..Len(clips) :
              composed.layers[i] =
                  [clips[i] EXCEPT
                      !.start = SumDuration(SubSeq(clips, 1, i - 1)),
                      !.fadein2 = IF i = 1 THEN 2 * transition_duration ELSE 0,
                      !.fadeout2 = IF i = Len(clips)
                                   THEN 2 * transition_duration ELSE 0]

C10_Witness ==
    /\ seqPc = "create_transition_sequence"
    /\ transition_type = "crossfade"
    /\ compositeFails
    /\ Len(clips) = 3
    /\ transition_duration = 1
    /\ composed.kind = "concat"
    /\ composed.layers[3].fadeout2 = 2
    /\ warnings = <<"Crossfade failed">>


\* the calls that create the title, discover, process, compose, add the
\* soundtrack or render
Work ==
    {"create_title_slide", "get_media_files", "get_image_files",
     "process_media_files", "process_images", "create_transition_sequence",
     "concatenate_videoclips", "AudioFileClip", "set_audio", "write_videofile"}

Called(names) == \E i \in 1..Len(steps) : steps[i] \in names

\* C11: when the output path exists create_slideshow asks for confirmation
\* before it creates a title, discovers, processes, composes or renders; it
\* goes on exactly when the answer is "", "y" or "Y", and otherwise returns
\* having made no other call; when the path does not exist it never asks.
C11_OverwritePrompt ==
    /\ ~output_exists => ~Called({"input"})
    /\ (output_exists /\ showPc = "start") => steps = <<>>
    /\ (output_exists /\ showPc \notin {"start", "idle"}) =>
          /\ steps[1] = "input"
          /\ \A i \in 2..Len(steps) : steps[i] # "input"
          /\ IF answer \in {<<>>, <<121>>, <<89>>}
             THEN showPc = "returned" => Called(Work)
             ELSE /\ showPc = "returned"
                  /\ steps = <<"input">>
                  /\ files = <<>>
                  /\ media_files = <<>>
                  /\ clips = <<>>
                  /\ title_slide = None
                  /\ final_clip = None

\* the file exists, the user types "Y" and the video is rendered
C11_Witness ==
    /\ output_exists
    /\ answer = <<89>>
    /\ showPc = "returned"
    /\ steps[1] = "input"
    /\ steps[Len(steps)] = "write_videofile"

\* the entries of the directory the discovery of this run recognizes
ShowRecognized ==
    {i \in 1..Len(dirEntries) :
        \E ext \in (IF include_videos THEN all_extensions ELSE image_extensions) :
            EndsIn(dirEntries[i].name, ext)}

\* C12: when discovery finds no matching file, create_slideshow prints the
\* error and returns normally, and nothing is processed, composed or rendered.
C12_NoMediaFound ==
    (Called({"get_media_files", "get_image_files"}) /\ ShowRecognized = {}) =>
        /\ showPc = "returned"
        /\ discError.kind = "FileNotFoundError"
        /\ console[Len(console)] = discError.text
        /\ ~Called(Work \ {"create_title_slide", "get_media_files",
                           "get_image_files"})
        /\ clips = <<>>
        /\ final_clip = None

\* images only, with a title, in a directory that holds one video
C12_Witness ==
    /\ ~include_videos
    /\ Len(dirEntries) = 1
    /\ dirEntries[1].name = <<97, 46, 109, 112, 52>>
    /\ steps = <<"create_title_slide", "get_image_files">>
    /\ showPc = "returned"
    /\ console = <<"No image files found in the specified directory: ">>

\* C13: a failure of write_videofile is reported and leaves create_slideshow
\* as an exception, with no success message; a failure while loading the
\* soundtrack is reported, no audio is attached and the run goes on to the
\* render step.
C13_RenderFatal ==
    /\ "write_videofile" \in faults =>
          /\ showPc = "raised"
          /\ steps[Len(steps)] = "write_videofile"
          /\ console[Len(console)] = "An error occurred"
          /\ \A i \in 1..Len(console) : console[i] # "rendered successfully"
    /\ "AudioFileClip" \in faults =>
          /\ \E i \in 1..Len(console) : console[i] = "Error adding soundtrack"
          /\ audio = None
          /\ showPc = "render" \/ steps[Len(steps)] = "write_videofile"
          /\ showPc = "raised" => "write_videofile" \in faults

\* the soundtrack fails to load and the render, reached all the same, fails
C13_Witness ==
    /\ faults = {"AudioFileClip", "write_videofile"}
    /\ showPc = "raised"
    /\ console = <<"Error adding soundtrack", "An error occurred">>

\* the parse_arguments call has returned
Parsed == cliPc = "parse_arguments"

\* C14: the config path is the --config path if that file exists, else
\* config.toml if it exists, else ~/.config/sly/config.toml if it exists,
\* else config.toml; a --config path that does not exist is not reported.
C14_ConfigPathPrecedence ==
    Parsed =>
        LET given == opt.config \in DOMAIN argv
        IN  /\ config_path =
                  IF given /\ "my.toml" \in exists THEN "my.toml"
                  ELSE IF "config.toml" \in exists THEN "config.toml"
                  ELSE IF "/home/user/.config/sly/config.toml" \in exists
                  THEN "/home/user/.config/sly/config.toml"
                  ELSE "config.toml"
            /\ (given /\ "my.toml" \notin exists) =>
                  \A i \in 1..Len(cliLog) : cliLog[i].path # "my.toml"

\* --config my.toml with only the user's config file on disk
C14_Witness ==
    /\ Parsed
    /\ opt.config \in DOMAIN argv
    /\ exists = {"/home/user/.config/sly/config.toml"}
    /\ config_path = "/home/user/.config/sly/config.toml"
    /\ cliLog = <<>>

\* C15 as stated: every option absent from the command line whose mirrored
\* key is in the config file resolves to the config value, the boolean flags
\* included.
C15_ConfigFillsUnset ==
    Parsed =>
        \A o \in Options :
            (o \notin DOMAIN argv /\ Replace(o) \in DOMAIN config) =>
                args[o] = config[Replace(o)]

\* the keys of the config file that mirror an option
Mirrored == {k \in DOMAIN config : \E o \in Options : Replace(o) = k}

\* the same call with the other keys taken out of the config file
WithoutOtherKeys ==
    ParseArguments(argv, exists,
                   [toml |-> [k \in Mirrored |-> config[k]], parses |-> TRUE])

\* the value of an option given in neither place, as the claim lists them
Default(o) ==
    IF o = opt.include_videos THEN BoolVal(TRUE)
    ELSE IF o \in StoreTrueFlags THEN BoolVal(FALSE)
    ELSE IF o = opt.path THEN Str(".")
    ELSE IF o = opt.image_duration THEN FloatVal(3)
    ELSE IF o = opt.image_order THEN Str("name")
    ELSE IF o = opt.transition_duration THEN FloatVal(1)
    ELSE IF o = opt.transition_type THEN Str("crossfade")
    ELSE IF o = opt.slideshow_width THEN IntVal(1920)
    ELSE IF o = opt.slideshow_height THEN IntVal(1080)
    ELSE IF o = opt.output THEN Str("slideshow.mp4")
    ELSE IF o = opt.fps THEN FloatVal(24)
    ELSE IF o = opt.video_duration_mode THEN Str("original")
    ELSE None

\* a value given on the command line is kept (--images-only alone can turn a
\* given --include-videos off), and the keys that mirror no option change
\* nothing
KeepsCommandLine ==
    /\ \A o \in DOMAIN argv :
          \/ args[o] = argv[o]
          \/ /\ o = opt.include_videos
             /\ opt.images_only \in DOMAIN argv
             /\ args[o] = BoolVal(FALSE)
    /\ args = WithoutOtherKeys.args

\* C16 as stated: command-line values are kept, unknown keys change nothing
\* and every option given in neither place has its built-in default,
\* include_videos true.
C16_Original ==
    Parsed =>
        /\ KeepsCommandLine
        /\ \A o \in Options :
              (o \notin DOMAIN argv /\ Replace(o) \notin DOMAIN config) =>
                  args[o] = Default(o)

\* C16, amended: as stated, except that include_videos given in neither place
\* is false when --images-only is on the command line.
C16_Resolution ==
    Parsed =>
        /\ KeepsCommandLine
        /\ \A o \in Options :
              (o \notin DOMAIN argv /\ Replace(o) \notin DOMAIN config) =>
                  args[o] = IF o = opt.include_videos
                               /\ opt.images_only \in DOMAIN argv
                            THEN BoolVal(FALSE)
                            ELSE Default(o)

\* --image-duration 5 with a config file that says image-duration = 7 and
\* colour = "red"
C16_Witness ==
    /\ Parsed
    /\ DOMAIN argv = {opt.image_duration}
    /\ DOMAIN config = {Replace(opt.image_duration), <<99, 111, 108, 111, 117, 114>>}
    /\ config[Replace(opt.image_duration)] = FloatVal(7)
    /\ args[opt.image_duration] = FloatVal(5)
    /\ args[opt.fps] = FloatVal(24)
    /\ args[opt.include_videos] = BoolVal(TRUE)

\* x > 0 and x >= 0 for a number of the Namespace
Positive(x) == (x.kind = "int" \/ ~x.nan) /\ x.v > 0
NonNegative(x) == (x.kind = "int" \/ ~x.nan) /\ x.v >= 0

\* C17 as stated: validate_arguments returns true if and only if path is
\* non-empty, image_duration > 0, transition_duration >= 0, slideshow_width
\* > 0, slideshow_height > 0, fps > 0 and image_order is name, date or random.
C17_ValidIff ==
    cliPc = "validate_arguments" =>
        (valid = BoolVal(TRUE)) <=>
            /\ args[opt.path].kind = "str" /\ args[opt.path].s # ""
            /\ Positive(args[opt.image_duration])
            /\ NonNegative(args[opt.transition_duration])
            /\ Positive(args[opt.slideshow_width])
            /\ Positive(args[opt.slideshow_height])
            /\ Positive(args[opt.fps])
            /\ args[opt.image_order].s \in {"name", "date", "random"}

\* C18: the audio attached to the final composition lasts exactly as long as
\* the composition: a soundtrack shorter than the video is looped, enough
\* times to cover it, and cut to the video's duration; any other is trimmed
\* to [0, video duration].
C18_AudioSpansVideo ==
    audio.kind = "audio" =>
        /\ audio.duration = final_clip.duration
        /\ audio.source < final_clip.duration =>
              /\ audio.cut = "audio_loop"
              /\ audio.loops * audio.source >= final_clip.duration
        /\ audio.source >= final_clip.duration =>
              /\ audio.cut = "subclip"
              /\ audio.loops = 1

\* a soundtrack of 1 tick looped over a video of 3 ticks or more
C18_Witness ==
    /\ audio.kind = "audio"
    /\ audio.source = 1
    /\ final_clip.duration >= 3
    /\ audio.cut = "audio_loop"
    /\ audio.duration = final_clip.duration
    /\ steps[Len(steps)] = "set_audio"

\* a title slide was made and the final composition was put together
TitledComposition == title_slide.kind = "title" /\ final_clip.kind # "None"

\* C19 as stated: with a title the composition starts with black(1 s), the
\* title with a fade-in and a fade-out of the transition duration, black(1 s)
\* and pause(1 s), ahead of the main sequence.
C19_Original ==
    TitledComposition =>
        /\ final_clip.kind = "concat"
        /\ Len(final_clip.layers) >= 4
        /\ final_clip.layers[1] = SetStart(ColorClip(Second), 0)
        /\ final_clip.layers[2].kind = "title"
        /\ final_clip.layers[2].fadein2 = 2 * transition_duration
        /\ final_clip.layers[2].fadeout2 = 2 * transition_duration
        /\ final_clip.layers[3].kind = "color"
        /\ final_clip.layers[3].duration = Second
        /\ final_clip.layers[4].kind = "color"
        /\ final_clip.layers[4].duration = Second
        /\ \A i \in 5..Len(final_clip.layers) :
              final_clip.layers[i].kind \notin {"color", "title"}

\* C19, amended: with a title the composition of create_slideshow starts with
\* black(0.5 s), the title (as long as an image) with a fade-in and a
\* fade-out of the transition duration, and black(0.5 s); the main sequence,
\* if there is a clip, follows as the fourth and last unit, so the title comes
\* before every media clip.
C19_TitleFirst ==
    TitledComposition =>
        /\ final_clip.kind = "concat"
        /\ Len(final_clip.layers) = IF Len(clips) = 0 THEN 3 ELSE 4
        /\ final_clip.layers[1] = SetStart(ColorClip(HalfSecond), 0)
        /\ final_clip.layers[2].kind = "title"
        /\ final_clip.layers[2].start = HalfSecond
        /\ final_clip.layers[2].duration = image_duration
        /\ final_clip.layers[2].fadein2 = 2 * transition_duration
        /\ final_clip.layers[2].fadeout2 = 2 * transition_duration
        /\ final_clip.layers[3] =
              SetStart(ColorClip(HalfSecond), HalfSecond + image_duration)
        /\ Len(clips) > 0 =>
              /\ final_clip.layers[4] =
                    SetStart(composed, 2 * HalfSecond + image_duration)
              /\ final_clip.layers[4].kind \in {"media", "composite", "concat"}
        /\ final_clip.duration =
              2 * HalfSecond + image_duration
              + (IF Len(clips) = 0 THEN 0 ELSE composed.duration)

\* a title ahead of two clips cross-faded over 1 tick
C19_Witness ==
    /\ TitledComposition
    /\ Len(clips) = 2
    /\ transition_type = "crossfade"
    /\ transition_duration = 1
    /\ Len(final_clip.layers) = 4
    /\ final_clip.layers[2].fadeout2 = 2
    /\ final_clip.layers[4].kind = "composite"

\* apply_transitions of sly.py ran and its list was concatenated
LegacyComposed == seqPc = "apply_transitions" /\ composed.kind = "concat"

\* the number of units apply_transitions puts ahead of the clips
TitleOffset == IF title_slide.kind = "None" THEN 0 ELSE 4

\* the middle positions of the clip list, counted from 1
Middle == 2..(Len(clips) - 1)

\* the fade style of the package ran on two or more clips
FadeSequenceRan == FadeStyleRan /\ Len(clips) >= 2

\* C20 as stated: in the fade-to-black style, for every middle clip i the
\* composer emits a transition unit as long as clip i and then clip i
\* trimmed to its duration minus the transition duration.
C20_Original ==
    (FadeSequenceRan \/ LegacyComposed) =>
        \A i \in Middle :
            LET k == TitleOffset + 2 * i - 2
            IN  /\ Len(composed.layers) >= k + 1
                /\ composed.layers[k].kind = "composite"
                /\ composed.layers[k].duration = clips[i].duration
                /\ composed.layers[k + 1].id = i
                /\ composed.layers[k + 1].duration =
                      clips[i].duration - transition_duration

\* C20, amended: apply_transitions of sly.py emits, for every middle clip i,
\* a transition unit as long as clip i (clip i-1 from its start, whole, under
\* clip i cross-fading in from clip i's duration minus the transition) and
\* then clip i trimmed to its duration minus the transition; create_fade_sequence
\* emits no transition unit: every middle clip appears once, at its full
\* duration, with a fade-in and a fade-out of half the transition (or as it
\* came when the first concatenation fails).
C20_MiddleClips ==
    /\ LegacyComposed =>
          \A i \in Middle :
              LET k == TitleOffset + 2 * i - 2
                  unit == composed.layers[k]
                  rest == composed.layers[k + 1]
              IN  /\ unit.kind = "composite"
                  /\ unit.duration = clips[i].duration
                  /\ unit.layers[1] = clips[i - 1]
                  /\ unit.layers[2] =
                        [clips[i] EXCEPT
                            !.start = clips[i].duration - transition_duration,
                            !.crossfadein2 = 2 * transition_duration]
                  /\ rest = [clips[i] EXCEPT
                                !.duration = clips[i].duration - transition_duration,
                                !.start = unit.start + unit.duration]
    /\ FadeSequenceRan =>
          /\ Len(composed.layers) = Len(clips)
          /\ \A i \in Middle :
                /\ composed.layers[i].kind = "media"
                /\ composed.layers[i].id = i
                /\ composed.layers[i].duration = clips[i].duration
                /\ composed.layers[i].fadein2 =
                      IF concatFails THEN 0 ELSE transition_duration
                /\ composed.layers[i].fadeout2 =
                      IF concatFails THEN 0 ELSE transition_duration

\* sly.py on three clips of 3 ticks with a transition of 1 tick and no title:
\* the second clip follows its transition unit, cut to 2 ticks
C20_Witness ==
    /\ LegacyComposed
    /\ title_slide = None
    /\ Len(clips) = 3
    /\ Uniform(3)
    /\ transition_duration = 1
    /\ composed.layers[2].kind = "composite"
    /\ composed.layers[2].duration = 3
    /\ composed.layers[3].id = 2
    /\ composed.layers[3].duration = 2

\* the crossfade style layered n >= 2 clips
Layered == CrossfadeRan /\ Len(clips) >= 2 /\ ~compositeFails

\* the fade-in, fade-out and crossfade-in of a clip, in half ticks
Effects(c) == <<c.fadein2, c.fadeout2, c.crossfadein2>>

\* C21 as stated: in the crossfade style with n >= 2 clips, clip 0 gets only
\* a fade-in of the transition duration, clip n-1 only a fade-out of it, the
\* interior clips only a crossfade-in, and no clip's duration is trimmed.
C21_Original ==
    Layered =>
        LET n == Len(clips)
            t2 == 2 * transition_duration
        IN  /\ Effects(composed.layers[1]) = <<t2, 0, 0>>
            /\ Effects(composed.layers[n]) = <<0, t2, 0>>
            /\ \A i \in 2..(n - 1) : Effects(composed.layers[i]) = <<0, 0, t2>>
            /\ \A i \in 1..n : composed.layers[i].duration = clips[i].duration

\* C21, amended: clip 0 gets only a fade-in of the transition duration; clip
\* n-1 gets a fade-out of it and, like the interior clips, a crossfade-in of
\* it at its offset; the interior clips get only the crossfade-in; no clip's
\* duration is trimmed.
C21_CrossfadeEffects ==
    Layered =>
        LET n == Len(clips)
            t2 == 2 * transition_duration
        IN  /\ Effects(composed.layers[1]) = <<t2, 0, 0>>
            /\ Effects(composed.layers[n]) = <<0, t2, t2>>
            /\ \A i \in 2..(n - 1) : Effects(composed.layers[i]) = <<0, 0, t2>>
            /\ \A i \in 1..n : composed.layers[i].duration = clips[i].duration

\* three clips, a transition of one tick: the last clip fades out and
\* cross-fades in
C21_Witness ==
    /\ Layered
    /\ Len(clips) = 3
    /\ transition_duration = 1
    /\ Effects(composed.layers[2]) = <<0, 0, 2>>
    /\ Effects(composed.layers[3]) = <<0, 2, 2>>

\* one of the three composer functions of slideshow.py ran
ComposerRan ==
    seqPc \in {"create_transition_sequence", "create_fade_sequence",
               "create_crossfade_sequence"}

\* the entries of a composition: its layers, or the clip itself when it is
\* a single clip
Entries(c) ==
    IF c.layers = <<>> THEN {c} ELSE {c.layers[i] : i \in 1..Len(c.layers)}

\* the maximum of start + duration over the entries
TotalDuration(c) ==
    CHOOSE m \in {End(e) : e \in Entries(c)} :
        \A e \in Entries(c) : End(e) <= m

\* C22: for every non-empty clip list with positive durations, every
\* transition duration >= 0 and either style, the composed sequence's total
\* duration, the maximum of start + duration over its entries, is a finite
\* number strictly greater than 0, and it is the duration of the result.
C22_PositiveTotalDuration ==
    (ComposerRan /\ Len(clips) >= 1) =>
        /\ composed.kind \in {"media", "composite", "concat"}
        /\ TotalDuration(composed) \in Nat
        /\ TotalDuration(composed) > 0
        /\ composed.duration = TotalDuration(composed)

\* two clips of one tick cross-faded over two ticks: the second starts
\* before 0 and the composition lasts one tick
C22_Witness ==
    /\ Layered
    /\ Len(clips) = 2
    /\ clips[1].duration = 1
    /\ clips[2].duration = 1
    /\ transition_duration = 2
    /\ composed.layers[2].start = -1
    /\ TotalDuration(composed) = 1

\* the entries of the composition playing at tick t
Playing(c, t) == {e \in Entries(c) : e.start <= t /\ t < End(e)}

\* C23: in every composition the sequence composer produces, every instant of
\* [0, totalDuration) lies inside [start, start + duration) of at least one
\* layer: consecutive segments and overlapped clips leave no gap.  Starts and
\* durations are whole ticks, so the ticks stand for all instants.
C23_NoGap ==
    (ComposerRan /\ Len(clips) >= 1) =>
        \A t \in 0..(TotalDuration(composed) - 1) : Playing(composed, t) # {}

\* three cross-faded clips of 3, 2 and 3 ticks overlapping by one tick: six
\* ticks in all, tick 2 inside the first two clips
C23_Witness ==
    /\ Layered
    /\ Len(clips) = 3
    /\ clips[1].duration = 3
    /\ clips[2].duration = 2
    /\ clips[3].duration = 3
    /\ transition_duration = 1
    /\ TotalDuration(composed) = 6
    /\ Cardinality(Playing(composed, 2)) = 2

MainCalled(name) == \E i \in 1..Len(mainCalls) : mainCalls[i] = name

\* parse_arguments returned a Namespace asking for the font list
FontListAsked == DOMAIN args # {} /\ IsTrue(args[opt.list_fonts])

\* C25 as stated: main never lets an exception escape; with --list-fonts it
\* lists the fonts and returns without validating or creating a slideshow;
\* when validate_arguments fails no SlideshowCreator is constructed.
C25_Original ==
    /\ escaped = None
    /\ mainPc # "escaped"
    /\ FontListAsked =>
          /\ ~MainCalled("validate_arguments")
          /\ ~MainCalled("SlideshowCreator")
          /\ mainPc # "parsed" => MainCalled("list_fonts")
    /\ valid = BoolVal(FALSE) => ~MainCalled("SlideshowCreator")

\* C25, amended: KeyboardInterrupt and every Exception raised by parsing,
\* font listing, validation or slideshow creation are caught and reported,
\* and main returns; the only exception that leaves main is the SystemExit
\* of argparse (--help, a usage error), raised inside parse_arguments before
\* anything else is called.  With --list-fonts main lists the fonts and
\* returns without validating or creating a slideshow; when
\* validate_arguments fails no SlideshowCreator is constructed.
C25_MainContainsFailures ==
    /\ escaped \in {None, Str("SystemExit")}
    /\ (mainPc = "escaped") = (escaped # None)
    /\ escaped # None => mainCalls = <<"parse_arguments">> /\ cliLog = <<>>
    /\ FontListAsked =>
          /\ ~MainCalled("validate_arguments")
          /\ ~MainCalled("SlideshowCreator")
          /\ mainPc # "parsed" => mainCalls = <<"parse_arguments", "list_fonts">>
    /\ valid = BoolVal(FALSE) =>
          /\ mainPc = "returned"
          /\ mainCalls = <<"parse_arguments", "validate_arguments">>

\* create_slideshow raised with --verbose: the error and the traceback are
\* printed and main returns
C25_Witness ==
    /\ mainPc = "returned"
    /\ escaped = None
    /\ valid = BoolVal(TRUE)
    /\ mainCalls = <<"parse_arguments", "validate_arguments",
                     "SlideshowCreator", "create_slideshow">>
    /\ cliLog = <<"Error", "Traceback">>

\* the source and the target have the same aspect ratio
SameRatio ==
    original.width * target_height = original.height * target_width

\* C26: when sw*th = sh*tw the crop box computed by resize_and_crop is the
\* full source (0, 0, sw, sh); so resize_and_crop applied again with the same
\* target to its own result crops nothing and returns the same dimensions.
C26_SameRatioNoCrop ==
    /\ (cropPc # "start" /\ SameRatio) =>
          crop_box = <<0, 0, original.width, original.height>>
    /\ cropPc = "done" =>
          ResizeAndCropImage(image, target_width, target_height) =
              [box |-> <<0, 0, target_width, target_height>>,
               image |-> image, pc |-> "done"]

\* C27: for all positive source and target dimensions the crop box computed
\* by resize_and_crop lies inside the source image and is non-empty: at least
\* one pixel wide and one pixel high.
C27_CropBoxInsideNonEmpty ==
    cropPc # "start" =>
        /\ 0 <= crop_box[1]
        /\ 0 <= crop_box[2]
        /\ crop_box[3] <= original.width
        /\ crop_box[4] <= original.height
        /\ crop_box[3] - crop_box[1] >= 1
        /\ crop_box[4] - crop_box[2] >= 1

\* mixed-media mode: discovery returned files and none of them decoded
NothingDecoded ==
    /\ include_videos
    /\ Len(files) >= 1
    /\ matResult.kind = "list"
    /\ Len(matResult.items) = 0

\* C28: in mixed-media mode, when discovery succeeds but every discovered
\* file fails to decode, create_slideshow ends with a reported error and
\* never reaches the render step, with or without a title.
C28_NoEmptyVideo ==
    NothingDecoded =>
        /\ \A i \in 1..Len(steps) : steps[i] # "write_videofile"
        /\ showPc # "returned"
        /\ showPc = "raised" => console = <<"An error occurred">>

\* the transition is shorter than every clip
ShorterThanClips ==
    \A i \in 1..Len(clips) : transition_duration < clips[i].duration

\* the start offsets are non-negative and strictly increasing
IncreasingStarts ==
    /\ \A i \in 1..Len(composed.layers) : composed.layers[i].start >= 0
    /\ \A i \in 2..Len(composed.layers) :
          composed.layers[i].start > composed.layers[i - 1].start

\* at every instant at most two clips are present
AtMostTwoPresent ==
    \A t \in 0..(TotalDuration(composed) - 1) :
        Cardinality(Playing(composed, t)) <= 2

\* C29 as stated: in create_crossfade_sequence, whenever 0 <= transition <
\* every clip's duration, the start offsets are non-negative and strictly
\* increasing and at every instant at most two clips are present.
C29_Original ==
    (Layered /\ ShorterThanClips) => IncreasingStarts /\ AtMostTwoPresent

\* C29, amended: whenever 0 <= transition < every clip's duration the start
\* offsets are non-negative and strictly increasing; at most two clips are
\* present at every instant, and only adjacent clips overlap, exactly when in
\* addition no interior clip is shorter than twice the transition.
C29_AdjacentOverlap ==
    (Layered /\ ShorterThanClips) =>
        LET L == composed.layers
            roomy == \A i \in 2..(Len(clips) - 1) :
                        2 * transition_duration <= clips[i].duration
        IN  /\ IncreasingStarts
            /\ AtMostTwoPresent <=> roomy
            /\ roomy =>
                  \A i \in 1..Len(L), j \in 1..Len(L) :
                      (i < j /\ L[j].start < End(L[i])) => j = i + 1

\* three clips of 3 ticks cross-faded over 2 ticks start at 0, 1 and 2: all
\* three are present at tick 2
C29_Witness ==
    /\ Layered
    /\ Len(clips) = 3
    /\ Uniform(3)
    /\ transition_duration = 2
    /\ IncreasingStarts
    /\ Cardinality(Playing(composed, 2)) = 3

\* the elements of a list
Range(list) == {list[i] : i \in 1..Len(list)}

\* C30: no file name is classified as both image and video by is_image_file
\* and is_video_file; every file get_media_files returns is classified as
\* exactly one of the two, so process_media_files never takes its
\* "unsupported file" branch on such a list; and the files get_image_files
\* returns are among those get_media_files returns for the same directory.
C30_ClassifiedOnce ==
    /\ image_extensions \cap video_extensions = {}
    /\ \A nm \in FileNames \cup ShowNames : ~(IsImageFile(nm) /\ IsVideoFile(nm))
    /\ \A rm \in GetMediaFiles(dirEntries, path, order) :
          /\ \A f \in Range(rm.files) : IsImageFile(f.name) # IsVideoFile(f.name)
          /\ \A ri \in GetImageFiles(dirEntries, path, order) :
                Range(ri.files) \subseteq Range(rm.files)
    /\ (include_videos /\ matResult.kind = "list") =>
          /\ Len(matLog) = Len(files)
          /\ \A f \in Range(files) : IsImageFile(f.name) # IsVideoFile(f.name)
          /\ \A k \in 1..Len(matLog) : matLog[k][1] # "Skipping unsupported file"

\* a directory holding n.txt and a.mp4: only the video is discovered and it
\* is processed as a video
C30_Witness ==
    /\ include_videos
    /\ showPc = "compose"
    /\ Len(dirEntries) = 2
    /\ \E e \in Range(dirEntries) : e.name = <<110, 46, 116, 120, 116>>
    /\ Len(files) = 1
    /\ IsVideoFile(files[1].name)
    /\ matLog = <<<<"Processed video", 1>>>>

=============================================================================
